---- MODULE Spec2Model ----
(***************************************************************************)
(* Verification model of the client-side request/cache/pagination          *)
(* coordination layer of dns-orchestrator.                                 *)
(*                                                                         *)
(* DNS record store: src/src/stores/dnsStore.ts (useDnsStore).             *)
(* Every asynchronous store operation is split at its single suspension    *)
(* point (the await on the gateway call): the part before the await is the *)
(* "issue" action, the continuation after it (try body after the await,    *)
(* catch, finally) is the "resolve" action.  The gateway is opaque: the    *)
(* outcome of a call (success envelope with data, failure envelope,        *)
(* rejection) and the data it carries are chosen nondeterministically when *)
(* the call resolves.                                                      *)
(*                                                                         *)
(* Per-account domain cache: useDomainStore in                             *)
(* src/src/components/toolbox/ToolboxPage.tsx, modelled the same way.  A   *)
(* continuation and everything that follows it without another gateway     *)
(* call (the completion of Promise.allSettled, finally blocks) run in one  *)
(* turn of the event loop and are one action.                              *)
(***************************************************************************)
EXTENDS Integers, Sequences, FiniteSets, TLC

\* ---------------------------------------------------------------- bounds
MaxReq == 3      \* gateway calls issued in one run
MaxId == 2       \* record identifiers are 1..MaxId
MaxItems == 2    \* items in one page of a list response
MaxCount == 1    \* largest totalCount a list response reports
MaxAccounts == 2 \* accounts are 1..MaxAccounts
MaxCalls == 3    \* list_domains calls issued in one run
MaxDomains == 1  \* items in one page of a list_domains response
MaxAdds == 3     \* addHistory calls in one run
MaxRemovals == 2 \* removeHistory and clearHistory calls in one run
MaxTotal == 2    \* gateway calls of both stores together in one run of SpecPromises
MaxLists == 3    \* list_domains calls the single-list domain store issues in one run
MaxChecks == 2   \* checkForUpdates calls pending at the same time

\* ------------------------------------------------------ program constants
MAX_HISTORY_ITEMS == 50

\* ------------------------------------------------------------ value sets
NULL == "null"
UNDEFINED == "undefined"
Domains == {"dA", "dB"}
Keywords == {"", "k"}
RecordTypes == {"", "A"}
Ids == 1..MaxId
Outcomes == {"ok", "fail", "reject"}

\* DnsRecord: identifier, owning domain, content.  The content is abstracted to
\* a revision: 0 as listed or created, 1 as returned by an update.
ListedRecords(d) == [id : Ids, dom : {d}, rev : {0}]

RECURSIVE SeqsUpTo(_, _)
SeqsUpTo(S, n) ==
  IF n = 0 THEN {<<>>}
  ELSE LET shorter == SeqsUpTo(S, n - 1)
       IN  shorter \cup {Append(s, x) : s \in {t \in shorter : Len(t) = n - 1}, x \in S}

IdsOf(recs) == {recs[i].id : i \in 1..Len(recs)}

DistinctIds(recs) == \A i, j \in 1..Len(recs) : i # j => recs[i].id # recs[j].id

\* PaginatedResponse<DnsRecord> of list_dns_records for domain d, page p:
\* the backend echoes the requested page and returns records of d.
Pages(d, p) ==
  [items : {s \in SeqsUpTo(ListedRecords(d), MaxItems) : DistinctIds(s)},
   page : {p}, hasMore : BOOLEAN, totalCount : 0..MaxCount]

\* ----------------------------------------------------------------- state
VARIABLES
  records, currentDomainId, isLoading, isLoadingMore, isDeleting, error,
  page, hasMore, totalCount, keyword, recordType,
  selectedRecordIds, isSelectMode, isBatchDeleting,
  inflight,    \* continuations suspended at their gateway call
  nextSeq,     \* number of the next gateway call
  lastFetch,   \* history: the most recently issued fetchRecords call and its response
  allOk,       \* history: every response so far was a success envelope
  exhausted,   \* history: a committed list response said hasMore=false for the current
               \* domain and no first-page commit has said hasMore=true since
  returned     \* history: how the promise of a record-store operation settled last

dnsVars == <<records, currentDomainId, isLoading, isLoadingMore, isDeleting,
             error, page, hasMore, totalCount, keyword, recordType,
             selectedRecordIds, isSelectMode, isBatchDeleting>>
histVars == <<lastFetch, allOk, exhausted, returned>>
recordVars == <<dnsVars, inflight, nextSeq, histVars>>

\* the per-account domain cache (useDomainStore)
VARIABLES
  domainsByAccount,        \* account id -> AccountDomainCache, for the cached accounts
  loadingAccounts, loadingMoreAccounts, isBackgroundRefreshing,
  storage,                 \* localStorage item DOMAINS_CACHE
  now,                     \* the clock Date.now() reads
  accountsIsLoading,       \* useAccountStore: isLoading
  accountCalls,            \* useAccountStore: outstanding list_accounts calls
  domainCalls,             \* continuations suspended at a list_domains call
  nextCall,                \* number of the next list_domains call
  settled,                 \* the promise most recently settled by the cache operations
  loaded                   \* history: loadFromStorage has run

cacheVars == <<domainsByAccount, loadingAccounts, loadingMoreAccounts,
               isBackgroundRefreshing, storage, now, accountsIsLoading, accountCalls>>
callVars == <<domainCalls, nextCall, settled>>
domainVars == <<cacheVars, callVars, loaded>>

\* the query history of the toolbox (useToolboxStore)
VARIABLES
  history,                 \* QueryHistoryItem[], most recent first
  uuids,                   \* number of identifiers crypto.randomUUID() has produced
  removals                 \* history: number of removeHistory and clearHistory calls

toolVars == <<history, uuids, removals>>

\* the single-list domain store of the sidebar (domainStore.ts)
VARIABLES
  domainState,             \* DomainState: the data fields of the store
  listCalls,               \* continuations suspended at their list_domains call
  nextList                 \* number of the next list_domains call of this store

listVars == <<domainState, listCalls, nextList>>

\* the updater store (updaterStore.ts)
VARIABLES
  updater,                 \* UpdaterState: the data fields of the store
  skippedVersion,          \* localStorage item SKIPPED_VERSION_KEY
  currentPlatform,         \* what platform() answers on this device
  checkCalls,              \* checkForUpdates calls suspended at their update check, and
                           \* history: the branch the last answered check took, the
                           \* versions skipped since the last successful install
  job                      \* the downloadAndInstall call: where it stands

updaterVars == <<updater, skippedVersion, currentPlatform, checkCalls, job>>
sideVars == <<listVars, updaterVars>>

\* what the operations of one store leave alone: the other stores
outsideRecords == <<domainVars, toolVars, sideVars>>
otherVars == <<histVars, outsideRecords>>
outsideDomains == <<recordVars, toolVars, sideVars>>
idleVars == <<outsideDomains, loaded>>
\* the toolbox reads the clock of the domain cache and nothing else of it
outsideTools == <<recordVars, domainsByAccount, loadingAccounts, loadingMoreAccounts,
                  isBackgroundRefreshing, storage, accountsIsLoading, accountCalls,
                  callVars, loaded, sideVars>>
outsideList == <<recordVars, domainVars, toolVars, updaterVars>>
outsideUpdater == <<recordVars, domainVars, toolVars, listVars>>

vars == <<recordVars, domainVars, toolVars, sideVars>>

NoData == [items |-> <<>>, page |-> 1, hasMore |-> FALSE, totalCount |-> 0]

\* what the gateway can answer to a list call: a success envelope with a page,
\* a failure envelope, or a rejection (the last two carry no data)
ListResponses(d, p) ==
  [outcome : {"ok"}, data : Pages(d, p)] \cup [outcome : {"fail", "reject"}, data : {NoData}]

NoFetch == [seq |-> 0, domainId |-> NULL, keyword |-> "", recordType |-> "",
            change |-> FALSE, clean |-> TRUE, overlap |-> FALSE,
            outcome |-> NULL, data |-> NoData]

NoReturn == [op |-> NULL, result |-> NULL, value |-> NULL]

\* a suspended continuation: the operation and what its closure captured
Req(op, d, kw, rt, p, recs, rid, rids) ==
  [op |-> op, seq |-> nextSeq, domainId |-> d, keyword |-> kw, recordType |-> rt,
   page |-> p, records |-> recs, recordId |-> rid, recordIds |-> rids]

\* the gateway call is issued and the operation suspends
Invoke(req) ==
  /\ nextSeq <= MaxReq
  /\ inflight' = inflight \cup {req}
  /\ nextSeq' = nextSeq + 1

\* the gateway call of r resolves and r's continuation runs
Resume(r, op) ==
  /\ r \in inflight
  /\ r.op = op
  /\ inflight' = inflight \ {r}
  /\ UNCHANGED nextSeq

\* value sets of the domain cache
Accounts == 1..MaxAccounts
DomainNames == {"x", "y"}

\* PaginatedResponse<Domain> of list_domains for page p (echoed by the backend)
DomainPages(p) ==
  [items : SeqsUpTo(DomainNames, MaxDomains), page : {p}, hasMore : BOOLEAN]

NoPage == [items |-> <<>>, page |-> 1, hasMore |-> FALSE]

DomainResponses(p) ==
  [outcome : {"ok"}, data : DomainPages(p)] \cup [outcome : {"fail", "reject"}, data : {NoPage}]

\* domainsByAccount: {}
NoCache == [a \in {} |-> NoPage]

\* localStorage without / with the item
\* JSON.stringify / JSON.parse of the cache map: the text lists the entries, one
\* key-value pair for each cached account
Stringify_empty(cache) == {}
Stringify(cache) == {<<a, cache[a]>> : a \in DOMAIN cache}
Parse(text) == [a \in {kv[1] : kv \in text} |-> (CHOOSE kv \in text : kv[1] = a)[2]]

NoItem == [present |-> FALSE, value |-> {}]
Item(cache) == [present |-> TRUE, value |-> Stringify(cache)]

NoPromise == [op |-> NULL, accountId |-> 0, result |-> NULL]
Settle(op, accountId, result) == [op |-> op, accountId |-> accountId, result |-> result]

\* useDnsStore as created
InitRecords ==
  /\ records = <<>>
  /\ currentDomainId = NULL
  /\ isLoading = FALSE
  /\ isLoadingMore = FALSE
  /\ isDeleting = FALSE
  /\ error = NULL
  /\ page = 1
  /\ hasMore = FALSE
  /\ totalCount = 0
  /\ keyword = ""
  /\ recordType = ""
  /\ selectedRecordIds = {}
  /\ isSelectMode = FALSE
  /\ isBatchDeleting = FALSE
  /\ inflight = {}
  /\ nextSeq = 1
  /\ lastFetch = NoFetch
  /\ allOk = TRUE
  /\ exhausted = FALSE
  /\ returned = NoReturn

\* useDomainStore as created
InitDomainStore ==
  /\ domainsByAccount = NoCache
  /\ loadingAccounts = {}
  /\ loadingMoreAccounts = {}
  /\ isBackgroundRefreshing = FALSE
  /\ now = 0
  /\ accountsIsLoading = FALSE
  /\ accountCalls = 0
  /\ domainCalls = {}
  /\ nextCall = 1
  /\ settled = NoPromise
  /\ loaded = FALSE

\* nothing stored yet
InitDomains == InitDomainStore /\ storage = NoItem

\* useToolboxStore as created, nothing persisted
InitTools ==
  /\ history = <<>>
  /\ uuids = 0
  /\ removals = 0

\* domainStore.ts: the store as created; no account is NoAccount
NoAccount == 0
InitList ==
  /\ domainState = [domains |-> <<>>, selectedDomainId |-> NULL, isLoading |-> FALSE,
                    isLoadingMore |-> FALSE, error |-> NULL, page |-> 1,
                    hasMore |-> FALSE, totalCount |-> 0, currentAccountId |-> NoAccount]
  /\ listCalls = {}
  /\ nextList = 1

\* updaterStore.ts: the store as created, no version skipped, no call made
MAX_RETRIES == 3
Platforms == {"android", "linux"}
\* available: null
NoUpdate == [version |-> NULL, android |-> FALSE]
NoJob == [pc |-> "idle", attempt |-> 0, update |-> NoUpdate, downloads |-> 0,
          retries |-> 0, promise |-> NULL]
InitUpdaterStore ==
  /\ updater = [checking |-> FALSE, downloading |-> FALSE, progress |-> 0,
                available |-> NoUpdate, error |-> NULL, upToDate |-> FALSE,
                isPlatformUnsupported |-> FALSE, retryCount |-> 0,
                maxRetries |-> MAX_RETRIES, showUpdateDialog |-> FALSE]
  /\ skippedVersion = NULL
  /\ checkCalls = [pending |-> 0, last |-> NULL, skips |-> {}]
  /\ job = NoJob

InitSide == InitList /\ InitUpdaterStore /\ currentPlatform = "linux"

Init == InitRecords /\ InitDomains /\ InitTools /\ InitSide

\* the updater on either kind of device
InitPlatforms ==
  /\ InitRecords /\ InitDomains /\ InitTools /\ InitList /\ InitUpdaterStore
  /\ currentPlatform \in Platforms

\* what an earlier session can have left in localStorage: nothing, an empty map,
\* or the entry of an account, written before this session's clock started
StoredCaches ==
  {NoCache} \cup
  {[a \in {x} |-> [domains |-> <<"x">>, lastUpdated |-> -1, page |-> 1, hasMore |-> h]] :
     x \in Accounts, h \in BOOLEAN}

InitStored ==
  /\ InitRecords
  /\ InitDomainStore
  /\ storage \in {NoItem} \cup {Item(cache) : cache \in StoredCaches}
  /\ InitTools
  /\ InitSide

ErrorMessage_none(outcome) == NULL
ErrorMessage(outcome) == IF outcome = "fail" THEN "failed" ELSE "rejected"

\* ------------------------------------------------------------ fetchRecords
IsDomainChange_always(prevDomainId, domainId) == TRUE
IsDomainChange(prevDomainId, domainId) == prevDomainId # domainId

\* the request is stale: the user has moved to another domain
IsStale_never(domainId) == FALSE
IsStale(domainId) == currentDomainId # domainId

\* the finally block of both list operations: the value it leaves in the flag
Finally_skipped(domainId, flag) == flag
Finally(domainId, flag) == IF currentDomainId = domainId THEN FALSE ELSE flag

FetchRecords(domainId, kwArg, rtArg) ==
  LET isDomainChange == IsDomainChange(currentDomainId, domainId)
      searchKeyword == IF kwArg # UNDEFINED THEN kwArg ELSE keyword
      searchRecordType == IF rtArg # UNDEFINED THEN rtArg ELSE recordType
  IN  /\ isLoading' = TRUE
      /\ error' = NULL
      /\ currentDomainId' = domainId
      /\ page' = 1
      /\ hasMore' = FALSE
      /\ keyword' = searchKeyword
      /\ recordType' = searchRecordType
      /\ records' = IF isDomainChange THEN <<>> ELSE records
      /\ totalCount' = IF isDomainChange THEN 0 ELSE totalCount
      /\ Invoke(Req("fetchRecords", domainId, searchKeyword, searchRecordType, 1, <<>>, 0, {}))
      /\ UNCHANGED <<isLoadingMore, isDeleting, selectedRecordIds, isSelectMode,
                     isBatchDeleting>>

\* continuation of fetchRecords after the await: try body, catch, finally
FetchRecordsResolve(r, outcome, data) ==
  /\ Resume(r, "fetchRecords")
  /\ IF IsStale(r.domainId)
     THEN UNCHANGED dnsVars
     ELSE /\ IF outcome = "ok"
             THEN /\ records' = data.items
                  /\ page' = data.page
                  /\ hasMore' = data.hasMore
                  /\ totalCount' = data.totalCount
                  /\ UNCHANGED error
             ELSE /\ error' = ErrorMessage(outcome)
                  /\ UNCHANGED <<records, page, hasMore, totalCount>>
          /\ isLoading' = Finally(r.domainId, isLoading)
          /\ UNCHANGED <<currentDomainId, isLoadingMore, isDeleting, keyword, recordType,
                         selectedRecordIds, isSelectMode, isBatchDeleting>>

\* -------------------------------------------------------- fetchMoreRecords
FetchMoreGuard(domainId) == ~isLoadingMore /\ hasMore /\ currentDomainId = domainId

\* the call that passes the guard; a call that fails it returns at once
FetchMoreRecords(domainId) ==
  /\ FetchMoreGuard(domainId)
  /\ isLoadingMore' = TRUE
  /\ Invoke(Req("fetchMoreRecords", domainId, keyword, recordType, page + 1, records, 0, {}))
  /\ UNCHANGED <<records, currentDomainId, isLoading, isDeleting, error, page, hasMore,
                 totalCount, keyword, recordType, selectedRecordIds, isSelectMode,
                 isBatchDeleting>>

\* the list a load-more commit writes: the list captured at issue time plus the page
AppendPage(captured, items) == captured \o items

FetchMoreRecordsResolve(r, outcome, data) ==
  /\ Resume(r, "fetchMoreRecords")
  /\ IF IsStale(r.domainId)
     THEN UNCHANGED dnsVars
     ELSE /\ IF outcome = "ok"
             THEN /\ records' = AppendPage(r.records, data.items)
                  /\ page' = data.page
                  /\ hasMore' = data.hasMore
             ELSE UNCHANGED <<records, page, hasMore>>
          /\ isLoadingMore' = Finally(r.domainId, isLoadingMore)
          /\ UNCHANGED <<currentDomainId, isLoading, isDeleting, error, totalCount, keyword,
                         recordType, selectedRecordIds, isSelectMode, isBatchDeleting>>

\* ------------------------------------------------------------ createRecord
\* newId is the identifier the backend gives the record: one that no record the
\* client holds has, since the record does not exist before the call
CreateRecord(domainId, newId) ==
  /\ domainId # NULL
  /\ newId \notin IdsOf(records)
  /\ isLoading' = TRUE
  /\ error' = NULL
  /\ Invoke(Req("createRecord", domainId, "", "", 0, <<>>, newId, {}))
  /\ UNCHANGED <<records, currentDomainId, isLoadingMore, isDeleting, page, hasMore,
                 totalCount, keyword, recordType, selectedRecordIds, isSelectMode,
                 isBatchDeleting>>

CreateRecordResolve(r, outcome, rec) ==
  /\ Resume(r, "createRecord")
  /\ IF outcome = "ok"
     THEN /\ records' = Append(records, rec)
          /\ totalCount' = totalCount + 1
          /\ UNCHANGED error
     ELSE /\ error' = ErrorMessage(outcome)
          /\ UNCHANGED <<records, totalCount>>
  /\ isLoading' = FALSE
  /\ UNCHANGED <<currentDomainId, isLoadingMore, isDeleting, page, hasMore, keyword,
                 recordType, selectedRecordIds, isSelectMode, isBatchDeleting>>

\* ------------------------------------------------------------ updateRecord
UpdateRecord(recordId, domainId) ==
  /\ domainId # NULL
  /\ Invoke(Req("updateRecord", domainId, "", "", 0, <<>>, recordId, {}))
  /\ UNCHANGED dnsVars

\* records.map((r) => (r.id === recordId ? response.data : r))
ReplaceById_moveToEnd(recs, recordId, rec) ==
  IF recordId \in IdsOf(recs)
  THEN Append(SelectSeq(recs, LAMBDA x : x.id # recordId), rec)
  ELSE recs
ReplaceById(recs, recordId, rec) ==
  [i \in 1..Len(recs) |-> IF recs[i].id = recordId THEN rec ELSE recs[i]]

UpdateRecordResolve(r, outcome, rec) ==
  /\ Resume(r, "updateRecord")
  /\ records' = IF outcome = "ok" THEN ReplaceById(records, r.recordId, rec) ELSE records
  /\ UNCHANGED <<currentDomainId, isLoading, isLoadingMore, isDeleting, error, page, hasMore,
                 totalCount, keyword, recordType, selectedRecordIds, isSelectMode,
                 isBatchDeleting>>

\* ------------------------------------------------------------ deleteRecord
DeleteRecord(recordId, domainId) ==
  /\ domainId # NULL
  /\ isDeleting' = TRUE
  /\ Invoke(Req("deleteRecord", domainId, "", "", 0, <<>>, recordId, {}))
  /\ UNCHANGED <<records, currentDomainId, isLoading, isLoadingMore, error, page, hasMore,
                 totalCount, keyword, recordType, selectedRecordIds, isSelectMode,
                 isBatchDeleting>>

\* records.filter((r) => !ids.has(r.id))
RemoveIds(recs, ids) == SelectSeq(recs, LAMBDA x : x.id \notin ids)

\* Math.max(0, count - n)
FloorSub_noFloor(count, n) == count - n
FloorSub(count, n) == IF count - n > 0 THEN count - n ELSE 0

DeleteRecordResolve(r, outcome) ==
  /\ Resume(r, "deleteRecord")
  /\ IF outcome = "ok"
     THEN /\ records' = RemoveIds(records, {r.recordId})
          /\ totalCount' = FloorSub(totalCount, 1)
     ELSE UNCHANGED <<records, totalCount>>
  /\ isDeleting' = FALSE
  /\ UNCHANGED <<currentDomainId, isLoading, isLoadingMore, error, page, hasMore, keyword,
                 recordType, selectedRecordIds, isSelectMode, isBatchDeleting>>

\* ------------------------------------------------- synchronous operations
SetSearchParams(kw, rt) ==
  /\ keyword' = kw
  /\ recordType' = rt
  /\ UNCHANGED <<records, currentDomainId, isLoading, isLoadingMore, isDeleting, error, page,
                 hasMore, totalCount, selectedRecordIds, isSelectMode, isBatchDeleting,
                 inflight, nextSeq>>

ClearRecords ==
  /\ records' = <<>>
  /\ error' = NULL
  /\ page' = 1
  /\ hasMore' = FALSE
  /\ totalCount' = 0
  /\ keyword' = ""
  /\ recordType' = ""
  /\ selectedRecordIds' = {}
  /\ isSelectMode' = FALSE
  /\ UNCHANGED <<currentDomainId, isLoading, isLoadingMore, isDeleting, isBatchDeleting,
                 inflight, nextSeq>>

ToggleSelectMode ==
  /\ isSelectMode' = ~isSelectMode
  /\ selectedRecordIds' = {}
  /\ UNCHANGED <<records, currentDomainId, isLoading, isLoadingMore, isDeleting, error, page,
                 hasMore, totalCount, keyword, recordType, isBatchDeleting, inflight, nextSeq>>

ToggleRecordSelection(recordId) ==
  /\ selectedRecordIds' = IF recordId \in selectedRecordIds
                          THEN selectedRecordIds \ {recordId}
                          ELSE selectedRecordIds \cup {recordId}
  /\ UNCHANGED <<records, currentDomainId, isLoading, isLoadingMore, isDeleting, error, page,
                 hasMore, totalCount, keyword, recordType, isSelectMode, isBatchDeleting,
                 inflight, nextSeq>>

SelectAllRecords ==
  /\ selectedRecordIds' = IdsOf(records)
  /\ UNCHANGED <<records, currentDomainId, isLoading, isLoadingMore, isDeleting, error, page,
                 hasMore, totalCount, keyword, recordType, isSelectMode, isBatchDeleting,
                 inflight, nextSeq>>

ClearSelection ==
  /\ selectedRecordIds' = {}
  /\ UNCHANGED <<records, currentDomainId, isLoading, isLoadingMore, isDeleting, error, page,
                 hasMore, totalCount, keyword, recordType, isSelectMode, isBatchDeleting,
                 inflight, nextSeq>>

\* ------------------------------------------------------ batchDeleteRecords
\* BatchDeleteResult of batch_delete_dns_records for the requested identifiers:
\* failures names the records that were not deleted, the counts agree with it
BatchResults(recordIds) ==
  {[successCount |-> Cardinality(recordIds) - Cardinality(f),
    failedCount |-> Cardinality(f), failures |-> f] : f \in SUBSET recordIds}

NoResult == [successCount |-> 0, failedCount |-> 0, failures |-> {}]

BatchResponses(recordIds) ==
  [outcome : {"ok"}, result : BatchResults(recordIds)]
    \cup [outcome : {"fail", "reject"}, result : {NoResult}]

\* the call with a non-empty selection; with an empty one it returns null at once
BatchDeleteRecords(domainId) ==
  /\ domainId # NULL
  /\ selectedRecordIds # {}
  /\ isBatchDeleting' = TRUE
  /\ Invoke(Req("batchDeleteRecords", domainId, "", "", 0, <<>>, 0, selectedRecordIds))
  /\ UNCHANGED <<records, currentDomainId, isLoading, isLoadingMore, isDeleting, error, page,
                 hasMore, totalCount, keyword, recordType, selectedRecordIds, isSelectMode>>

\* request.recordIds.filter((id) => !result.failures.some((f) => f.recordId === id))
DeletedIds_all(recordIds, failures) == recordIds
DeletedIds(recordIds, failures) == {id \in recordIds : id \notin failures}

BatchDeleteRecordsResolve(r, outcome, result) ==
  /\ Resume(r, "batchDeleteRecords")
  /\ IF outcome = "ok"
     THEN /\ records' = RemoveIds(records, DeletedIds(r.recordIds, result.failures))
          /\ totalCount' = FloorSub(totalCount, result.successCount)
          /\ selectedRecordIds' = {}
          /\ isSelectMode' = FALSE
     ELSE UNCHANGED <<records, totalCount, selectedRecordIds, isSelectMode>>
  /\ isBatchDeleting' = FALSE
  /\ UNCHANGED <<currentDomainId, isLoading, isLoadingMore, isDeleting, error, page, hasMore,
                 keyword, recordType>>

\* ================================================ per-account domain cache
\* a suspended continuation of a cache operation and what its closure captured;
\* run is the number of the first call of the refreshAllAccounts run it belongs to
Call(op, seq, accountId, p, domains, run) ==
  [op |-> op, seq |-> seq, accountId |-> accountId, page |-> p, domains |-> domains,
   run |-> run]

ResumeCall(r, op) ==
  /\ r \in domainCalls
  /\ r.op = op
  /\ domainCalls' = domainCalls \ {r}
  /\ UNCHANGED nextCall

\* response.success && response.data
IsSuccess_always(outcome) == TRUE
IsSuccess(outcome) == outcome = "ok"

\* the entry a first-page commit writes
AccountDomainCache(data, time) ==
  [domains |-> data.items, lastUpdated |-> time, page |-> data.page,
   hasMore |-> data.hasMore]

\* { ...state.domainsByAccount, [accountId]: entry }
Put_alone(cache, accountId, entry) == [a \in {accountId} |-> entry]
Put(cache, accountId, entry) ==
  [a \in DOMAIN cache \cup {accountId} |-> IF a = accountId THEN entry ELSE cache[a]]

\* const { [accountId]: _, ...rest } = state.domainsByAccount
Without(cache, accountId) == [a \in DOMAIN cache \ {accountId} |-> cache[a]]

\* useAccountStore.getState().fetchAccounts() up to its await
FetchAccounts ==
  /\ accountsIsLoading' = TRUE
  /\ accountCalls' = accountCalls + 1

\* the continuation of fetchAccounts: the account list and the error it writes are
\* not part of the state, its finally is
FetchAccountsResolve ==
  /\ accountCalls > 0
  /\ accountCalls' = accountCalls - 1
  /\ accountsIsLoading' = FALSE
  /\ UNCHANGED <<domainsByAccount, loadingAccounts, loadingMoreAccounts,
                 isBackgroundRefreshing, storage, now, callVars>>

\* ------------------------------------------------------ refreshAllAccounts
IsRefreshingAll_never == FALSE
IsRefreshingAll == isBackgroundRefreshing

\* accounts.map(...): the calls are issued in the order of the array
Rank(accountId, accounts) == Cardinality({a \in accounts : a < accountId})

RefreshAllAccounts(accounts) ==
  IF IsRefreshingAll
  THEN /\ settled' = Settle("refreshAllAccounts", 0, "resolved")
       /\ UNCHANGED <<cacheVars, domainCalls, nextCall>>
  ELSE IF accounts = {}
  THEN \* nothing to wait for: saved, and the flag back to false, in the same turn
       /\ storage' = Item(domainsByAccount)
       /\ settled' = Settle("refreshAllAccounts", 0, "resolved")
       /\ UNCHANGED <<domainsByAccount, loadingAccounts, loadingMoreAccounts,
                      isBackgroundRefreshing, now, accountsIsLoading, accountCalls,
                      domainCalls, nextCall>>
  ELSE /\ nextCall + Cardinality(accounts) - 1 <= MaxCalls
       /\ isBackgroundRefreshing' = TRUE
       /\ domainCalls' = domainCalls \cup
            {Call("refreshAllAccounts", nextCall + Rank(a, accounts), a, 1, <<>>, nextCall) :
               a \in accounts}
       /\ nextCall' = nextCall + Cardinality(accounts)
       /\ UNCHANGED <<domainsByAccount, loadingAccounts, loadingMoreAccounts, storage, now,
                      accountsIsLoading, accountCalls, settled>>

\* the continuation of one account's fetch; when it is the last of its run, the
\* continuation of the Promise.allSettled await follows in the same turn
RefreshAllAccountsResolve(r, outcome, data) ==
  LET committed == IF IsSuccess(outcome)
                   THEN Put(domainsByAccount, r.accountId, AccountDomainCache(data, now))
                   ELSE domainsByAccount
      last == ~\E q \in domainCalls \ {r} : q.op = "refreshAllAccounts" /\ q.run = r.run
  IN  /\ ResumeCall(r, "refreshAllAccounts")
      /\ domainsByAccount' = committed
      /\ now' = IF IsSuccess(outcome) THEN now + 1 ELSE now
      /\ IF last
         THEN /\ storage' = Item(committed)
              /\ isBackgroundRefreshing' = FALSE
              /\ settled' = Settle("refreshAllAccounts", 0, "resolved")
         ELSE UNCHANGED <<storage, isBackgroundRefreshing, settled>>
      /\ UNCHANGED <<loadingAccounts, loadingMoreAccounts, accountsIsLoading, accountCalls>>

\* ---------------------------------------------------------- refreshAccount
IsLoadingAccount_never(accountId) == FALSE
IsLoadingAccount(accountId) == accountId \in loadingAccounts

RefreshAccount(accountId) ==
  IF IsLoadingAccount(accountId)
  THEN /\ settled' = Settle("refreshAccount", accountId, "resolved")
       /\ UNCHANGED <<cacheVars, domainCalls, nextCall>>
  ELSE /\ nextCall <= MaxCalls
       /\ loadingAccounts' = loadingAccounts \cup {accountId}
       /\ domainCalls' = domainCalls \cup
            {Call("refreshAccount", nextCall, accountId, 1, <<>>, 0)}
       /\ nextCall' = nextCall + 1
       /\ UNCHANGED <<domainsByAccount, loadingMoreAccounts, isBackgroundRefreshing, storage,
                      now, accountsIsLoading, accountCalls, settled>>

\* newSet.delete(accountId) in the finally blocks
Finished_kept(loading, accountId) == loading
Finished(loading, accountId) == loading \ {accountId}

\* credential: what isCredentialError says of the error thrown
RefreshAccountResolve(r, outcome, data, credential) ==
  /\ ResumeCall(r, "refreshAccount")
  /\ IF IsSuccess(outcome)
     THEN /\ domainsByAccount' = Put(domainsByAccount, r.accountId,
                                     AccountDomainCache(data, now))
          /\ now' = now + 1
          /\ storage' = Item(domainsByAccount')
          /\ settled' = Settle("refreshAccount", r.accountId, "resolved")
          /\ UNCHANGED <<accountsIsLoading, accountCalls>>
     ELSE /\ IF credential
             THEN FetchAccounts
             ELSE UNCHANGED <<accountsIsLoading, accountCalls>>
          /\ settled' = Settle("refreshAccount", r.accountId, "rejected")
          /\ UNCHANGED <<domainsByAccount, now, storage>>
  /\ loadingAccounts' = Finished(loadingAccounts, r.accountId)
  /\ UNCHANGED <<loadingMoreAccounts, isBackgroundRefreshing>>

\* --------------------------------------------------------- loadMoreDomains
\* !cache?.hasMore || loadingMoreAccounts.has(accountId)
LoadMoreGuard(accountId) ==
  /\ accountId \in DOMAIN domainsByAccount
  /\ domainsByAccount[accountId].hasMore
  /\ accountId \notin loadingMoreAccounts

LoadMoreDomains(accountId) ==
  IF ~LoadMoreGuard(accountId)
  THEN /\ settled' = Settle("loadMoreDomains", accountId, "resolved")
       /\ UNCHANGED <<cacheVars, domainCalls, nextCall>>
  ELSE LET cache == domainsByAccount[accountId]
       IN  /\ nextCall <= MaxCalls
           /\ loadingMoreAccounts' = loadingMoreAccounts \cup {accountId}
           /\ domainCalls' = domainCalls \cup
                {Call("loadMoreDomains", nextCall, accountId, cache.page + 1,
                      cache.domains, 0)}
           /\ nextCall' = nextCall + 1
           /\ UNCHANGED <<domainsByAccount, loadingAccounts, isBackgroundRefreshing, storage,
                          now, accountsIsLoading, accountCalls, settled>>

LoadMoreDomainsResolve(r, outcome, data) ==
  /\ ResumeCall(r, "loadMoreDomains")
  /\ IF IsSuccess(outcome)
     THEN /\ domainsByAccount' =
               Put(domainsByAccount, r.accountId,
                   [domains |-> r.domains \o data.items, lastUpdated |-> now,
                    page |-> data.page, hasMore |-> data.hasMore])
          /\ now' = now + 1
          /\ storage' = Item(domainsByAccount')
     ELSE UNCHANGED <<domainsByAccount, now, storage>>
  /\ loadingMoreAccounts' = Finished(loadingMoreAccounts, r.accountId)
  /\ settled' = Settle("loadMoreDomains", r.accountId, "resolved")
  /\ UNCHANGED <<loadingAccounts, isBackgroundRefreshing, accountsIsLoading, accountCalls>>

\* ------------------------------------------------------- clearAccountCache
ClearAccountCache(accountId) ==
  /\ domainsByAccount' = Without(domainsByAccount, accountId)
  /\ storage' = Item(domainsByAccount')
  /\ UNCHANGED <<loadingAccounts, loadingMoreAccounts, isBackgroundRefreshing, now,
                 accountsIsLoading, accountCalls, callVars>>

\* ------------------------------------------- loadFromStorage, clearAllCache
LoadFromStorage ==
  /\ domainsByAccount' = IF storage.present THEN Parse(storage.value) ELSE domainsByAccount
  /\ loaded' = TRUE
  /\ UNCHANGED <<loadingAccounts, loadingMoreAccounts, isBackgroundRefreshing, storage, now,
                 accountsIsLoading, accountCalls, callVars>>

ClearAllCache ==
  /\ domainsByAccount' = NoCache
  /\ storage' = NoItem
  /\ UNCHANGED <<loadingAccounts, loadingMoreAccounts, isBackgroundRefreshing, now,
                 accountsIsLoading, accountCalls, callVars>>

\* --------------------------------------------------------- specifications
\* history of the fetchRecords calls
TrackIssue(domainId) ==
  /\ lastFetch' = [seq |-> nextSeq, domainId |-> domainId,
                   keyword |-> keyword', recordType |-> recordType',
                   change |-> IsDomainChange(currentDomainId, domainId),
                   clean |-> ~\E r \in inflight :
                                r.op = "fetchRecords" /\ r.domainId = domainId,
                   overlap |-> \E r \in inflight :
                                r.op = "fetchRecords" /\ r.domainId # domainId,
                   outcome |-> NULL, data |-> NoData]
  /\ UNCHANGED <<allOk, exhausted, returned>>

TrackResponse(r, outcome, data) ==
  /\ allOk' = (allOk /\ outcome = "ok")
  /\ lastFetch' = IF r.seq = lastFetch.seq
                  THEN [lastFetch EXCEPT !.outcome = outcome, !.data = data]
                  ELSE lastFetch
  /\ UNCHANGED <<exhausted, returned>>

\* the arguments the record table passes to fetchRecords: both filters or none
FetchArgs == (Keywords \X RecordTypes) \cup {<<UNDEFINED, UNDEFINED>>}

\* a run that only issues fetchRecords calls
NextFetch ==
  \/ \E d \in Domains, a \in FetchArgs :
       FetchRecords(d, a[1], a[2]) /\ TrackIssue(d) /\ UNCHANGED outsideRecords
  \/ \E r \in inflight : \E resp \in ListResponses(r.domainId, r.page) :
       FetchRecordsResolve(r, resp.outcome, resp.data)
         /\ TrackResponse(r, resp.outcome, resp.data) /\ UNCHANGED outsideRecords

SpecFetch == Init /\ [][NextFetch]_vars

\* history of the hasMore flags that list responses committed
TrackEndIssue(domainId) ==
  /\ exhausted' = (exhausted /\ ~IsDomainChange(currentDomainId, domainId))
  /\ UNCHANGED <<lastFetch, allOk, returned>>

TrackEnd(r, outcome, data) ==
  /\ exhausted' = IF outcome = "ok" /\ currentDomainId = r.domainId
                  THEN IF ~data.hasMore THEN TRUE
                       ELSE IF r.op = "fetchRecords" THEN FALSE ELSE exhausted
                  ELSE exhausted
  /\ UNCHANGED <<lastFetch, allOk, returned>>

\* the record store with its list operations
NewRecords(r) == [id : {r.recordId}, dom : {r.domainId}, rev : {0}]
UpdatedRecords(r) == [id : Ids, dom : {r.domainId}, rev : {1}]

\* The record table and the record form call the store for the domain they show,
\* which is the domain of the last fetchRecords call (currentDomainId).  No
\* component calls setSearchParams or clearRecords; they are run in SpecReset.
Next ==
  \/ \E d \in Domains, kw \in {"k", UNDEFINED} :
       FetchRecords(d, kw, UNDEFINED) /\ TrackEndIssue(d) /\ UNCHANGED outsideRecords
  \/ \E r \in inflight : \E resp \in ListResponses(r.domainId, r.page) :
       FetchRecordsResolve(r, resp.outcome, resp.data)
         /\ TrackEnd(r, resp.outcome, resp.data) /\ UNCHANGED outsideRecords
  \/ FetchMoreRecords(currentDomainId) /\ UNCHANGED otherVars
  \/ \E r \in inflight : \E resp \in ListResponses(r.domainId, r.page) :
       FetchMoreRecordsResolve(r, resp.outcome, resp.data)
         /\ TrackEnd(r, resp.outcome, resp.data) /\ UNCHANGED outsideRecords
  \/ \E id \in Ids : CreateRecord(currentDomainId, id) /\ UNCHANGED otherVars
  \/ \E r \in inflight, o \in Outcomes : \E rec \in NewRecords(r) :
       CreateRecordResolve(r, o, rec) /\ UNCHANGED otherVars
  \/ \E id \in Ids : UpdateRecord(id, currentDomainId) /\ UNCHANGED otherVars
  \/ \E r \in inflight, o \in Outcomes : \E rec \in UpdatedRecords(r) :
       UpdateRecordResolve(r, o, rec) /\ UNCHANGED otherVars
  \/ \E id \in Ids : DeleteRecord(id, currentDomainId) /\ UNCHANGED otherVars
  \/ \E r \in inflight, o \in Outcomes : DeleteRecordResolve(r, o) /\ UNCHANGED otherVars

Spec == Init /\ [][Next]_vars

\* the same runs when the gateway answers every call: a step that ends a request
\* in flight is taken whenever it stays possible
Answer == Next /\ \E r \in inflight : r \notin inflight'

SpecLive == Init /\ [][Next]_vars /\ WF_vars(Answer)

\* the record table with one list being edited: the user opens or reloads a
\* domain only when no call is pending, then pages and edits the list
NextEdit ==
  \/ \E d \in Domains :
       inflight = {} /\ FetchRecords(d, UNDEFINED, UNDEFINED) /\ UNCHANGED otherVars
  \/ \E r \in inflight : \E resp \in ListResponses(r.domainId, r.page) :
       FetchRecordsResolve(r, resp.outcome, resp.data) /\ UNCHANGED otherVars
  \/ FetchMoreRecords(currentDomainId) /\ UNCHANGED otherVars
  \/ \E r \in inflight : \E resp \in ListResponses(r.domainId, r.page) :
       FetchMoreRecordsResolve(r, resp.outcome, resp.data) /\ UNCHANGED otherVars
  \/ \E id \in Ids : CreateRecord(currentDomainId, id) /\ UNCHANGED otherVars
  \/ \E r \in inflight, o \in Outcomes : \E rec \in NewRecords(r) :
       CreateRecordResolve(r, o, rec) /\ UNCHANGED otherVars
  \/ \E id \in Ids : UpdateRecord(id, currentDomainId) /\ UNCHANGED otherVars
  \/ \E r \in inflight, o \in Outcomes : \E rec \in UpdatedRecords(r) :
       UpdateRecordResolve(r, o, rec) /\ UNCHANGED otherVars
  \/ \E id \in Ids : DeleteRecord(id, currentDomainId) /\ UNCHANGED otherVars
  \/ \E r \in inflight, o \in Outcomes : DeleteRecordResolve(r, o) /\ UNCHANGED otherVars
  \/ SelectAllRecords /\ UNCHANGED otherVars
  \/ BatchDeleteRecords(currentDomainId) /\ UNCHANGED otherVars
  \/ \E r \in inflight : \E resp \in BatchResponses(r.recordIds) :
       BatchDeleteRecordsResolve(r, resp.outcome, resp.result) /\ UNCHANGED otherVars

SpecEdit == Init /\ [][NextEdit]_vars

\* the record store in select mode: selection, batch delete, and the operations
\* that change the list under the selection.  The table toggles the selection of
\* a row it shows, so toggleRecordSelection gets the identifier of a loaded record.
NextSelect ==
  \/ \E d \in Domains : FetchRecords(d, UNDEFINED, UNDEFINED) /\ UNCHANGED otherVars
  \/ \E r \in inflight : \E resp \in ListResponses(r.domainId, r.page) :
       FetchRecordsResolve(r, resp.outcome, resp.data) /\ UNCHANGED otherVars
  \/ FetchMoreRecords(currentDomainId) /\ UNCHANGED otherVars
  \/ \E r \in inflight : \E resp \in ListResponses(r.domainId, r.page) :
       FetchMoreRecordsResolve(r, resp.outcome, resp.data) /\ UNCHANGED otherVars
  \/ \E id \in Ids : DeleteRecord(id, currentDomainId) /\ UNCHANGED otherVars
  \/ \E r \in inflight, o \in Outcomes : DeleteRecordResolve(r, o) /\ UNCHANGED otherVars
  \/ BatchDeleteRecords(currentDomainId) /\ UNCHANGED otherVars
  \/ \E r \in inflight : \E resp \in BatchResponses(r.recordIds) :
       BatchDeleteRecordsResolve(r, resp.outcome, resp.result) /\ UNCHANGED otherVars
  \/ ToggleSelectMode /\ UNCHANGED otherVars
  \/ \E id \in IdsOf(records) : ToggleRecordSelection(id) /\ UNCHANGED otherVars
  \/ SelectAllRecords /\ UNCHANGED otherVars
  \/ ClearSelection /\ UNCHANGED otherVars

SpecSelect == Init /\ [][NextSelect]_vars

\* the two resets of the store that no component calls, against the first-page
\* fetch and the selection
NextReset ==
  \/ \E d \in Domains : FetchRecords(d, UNDEFINED, UNDEFINED) /\ UNCHANGED otherVars
  \/ \E r \in inflight : \E resp \in ListResponses(r.domainId, r.page) :
       FetchRecordsResolve(r, resp.outcome, resp.data) /\ UNCHANGED otherVars
  \/ ToggleSelectMode /\ UNCHANGED otherVars
  \/ \E id \in Ids : ToggleRecordSelection(id) /\ UNCHANGED otherVars
  \/ \E kw \in Keywords, rt \in RecordTypes : SetSearchParams(kw, rt) /\ UNCHANGED otherVars
  \/ ClearRecords /\ UNCHANGED otherVars

SpecReset == Init /\ [][NextReset]_vars

\* the domain cache: the selector page refreshes one account or all of them and
\* loads further pages; an account's entry is cleared when the account goes
NextCache ==
  \/ \E accounts \in SUBSET Accounts : RefreshAllAccounts(accounts) /\ UNCHANGED idleVars
  \/ \E r \in domainCalls : \E resp \in DomainResponses(r.page) :
       RefreshAllAccountsResolve(r, resp.outcome, resp.data) /\ UNCHANGED idleVars
  \/ \E a \in Accounts : RefreshAccount(a) /\ UNCHANGED idleVars
  \/ \E r \in domainCalls, credential \in BOOLEAN : \E resp \in DomainResponses(r.page) :
       RefreshAccountResolve(r, resp.outcome, resp.data, credential)
         /\ UNCHANGED idleVars
  \/ FetchAccountsResolve /\ UNCHANGED idleVars
  \/ \E a \in Accounts : LoadMoreDomains(a) /\ UNCHANGED idleVars
  \/ \E r \in domainCalls : \E resp \in DomainResponses(r.page) :
       LoadMoreDomainsResolve(r, resp.outcome, resp.data) /\ UNCHANGED idleVars
  \/ \E a \in Accounts : ClearAccountCache(a) /\ UNCHANGED idleVars

SpecCache == Init /\ [][NextCache]_vars

\* the domain cache with its durable copy, starting from what an earlier session
\* stored; a refresh rejected for its credentials is left to SpecCache
NextStorage ==
  \/ LoadFromStorage /\ UNCHANGED outsideDomains
  \/ \E accounts \in SUBSET Accounts :
       RefreshAllAccounts(accounts) /\ UNCHANGED idleVars
  \/ \E r \in domainCalls : \E resp \in DomainResponses(r.page) :
       RefreshAllAccountsResolve(r, resp.outcome, resp.data)
         /\ UNCHANGED idleVars
  \/ \E a \in Accounts : RefreshAccount(a) /\ UNCHANGED idleVars
  \/ \E r \in domainCalls : \E resp \in DomainResponses(r.page) :
       RefreshAccountResolve(r, resp.outcome, resp.data, FALSE)
         /\ UNCHANGED idleVars
  \/ \E a \in Accounts : LoadMoreDomains(a) /\ UNCHANGED idleVars
  \/ \E r \in domainCalls : \E resp \in DomainResponses(r.page) :
       LoadMoreDomainsResolve(r, resp.outcome, resp.data) /\ UNCHANGED idleVars
  \/ \E a \in Accounts : ClearAccountCache(a) /\ UNCHANGED idleVars
  \/ ClearAllCache /\ UNCHANGED idleVars

SpecStorage == InitStored /\ [][NextStorage]_vars

\* what the promise of a record-store operation resolves to once its gateway call
\* has resolved: no operation rethrows from its catch
ReturnValue_throws(op, outcome) ==
  IF outcome = "reject" THEN "error" ELSE "null"
ReturnValue_null(op, outcome) ==
  IF outcome = "ok" THEN "true" ELSE "null"
ReturnValue(op, outcome) ==
  CASE op \in {"fetchRecords", "fetchMoreRecords"} -> "undefined"
    [] op = "createRecord" -> IF outcome = "ok" THEN "record" ELSE "null"
    [] op \in {"updateRecord", "deleteRecord"} -> IF outcome = "ok" THEN "true" ELSE "false"
    [] op = "batchDeleteRecords" -> IF outcome = "ok" THEN "result" ELSE "null"

TrackReturn(r, outcome) ==
  /\ returned' = [op |-> r.op,
                  result |-> IF ReturnValue(r.op, outcome) = "error"
                             THEN "rejected" ELSE "resolved",
                  value |-> ReturnValue(r.op, outcome)]
  /\ UNCHANGED <<lastFetch, allOk, exhausted>>

\* both stores with every operation that calls the gateway, in runs of at most
\* MaxTotal gateway calls
WithinTotal == (nextSeq' - 1) + (nextCall' - 1) <= MaxTotal

NextPromises ==
  \/ \E d \in Domains :
       FetchRecords(d, UNDEFINED, UNDEFINED) /\ UNCHANGED otherVars /\ WithinTotal
  \/ \E r \in inflight : \E resp \in ListResponses(r.domainId, r.page) :
       FetchRecordsResolve(r, resp.outcome, resp.data)
         /\ TrackReturn(r, resp.outcome) /\ UNCHANGED outsideRecords
  \/ FetchMoreRecords(currentDomainId) /\ UNCHANGED otherVars /\ WithinTotal
  \/ \E r \in inflight : \E resp \in ListResponses(r.domainId, r.page) :
       FetchMoreRecordsResolve(r, resp.outcome, resp.data)
         /\ TrackReturn(r, resp.outcome) /\ UNCHANGED outsideRecords
  \/ \E id \in Ids : CreateRecord(currentDomainId, id) /\ UNCHANGED otherVars /\ WithinTotal
  \/ \E r \in inflight, o \in Outcomes : \E rec \in NewRecords(r) :
       CreateRecordResolve(r, o, rec) /\ TrackReturn(r, o) /\ UNCHANGED outsideRecords
  \/ \E id \in Ids : UpdateRecord(id, currentDomainId) /\ UNCHANGED otherVars /\ WithinTotal
  \/ \E r \in inflight, o \in Outcomes : \E rec \in UpdatedRecords(r) :
       UpdateRecordResolve(r, o, rec) /\ TrackReturn(r, o) /\ UNCHANGED outsideRecords
  \/ \E id \in Ids : DeleteRecord(id, currentDomainId) /\ UNCHANGED otherVars /\ WithinTotal
  \/ \E r \in inflight, o \in Outcomes :
       DeleteRecordResolve(r, o) /\ TrackReturn(r, o) /\ UNCHANGED outsideRecords
  \/ SelectAllRecords /\ UNCHANGED otherVars
  \/ BatchDeleteRecords(currentDomainId) /\ UNCHANGED otherVars /\ WithinTotal
  \/ \E r \in inflight : \E resp \in BatchResponses(r.recordIds) :
       BatchDeleteRecordsResolve(r, resp.outcome, resp.result)
         /\ TrackReturn(r, resp.outcome) /\ UNCHANGED outsideRecords
  \/ \E accounts \in SUBSET Accounts :
       RefreshAllAccounts(accounts) /\ UNCHANGED idleVars /\ WithinTotal
  \/ \E r \in domainCalls : \E resp \in DomainResponses(r.page) :
       RefreshAllAccountsResolve(r, resp.outcome, resp.data) /\ UNCHANGED idleVars
  \/ \E a \in Accounts : RefreshAccount(a) /\ UNCHANGED idleVars /\ WithinTotal
  \/ \E r \in domainCalls, credential \in BOOLEAN : \E resp \in DomainResponses(r.page) :
       RefreshAccountResolve(r, resp.outcome, resp.data, credential) /\ UNCHANGED idleVars
  \/ FetchAccountsResolve /\ UNCHANGED idleVars
  \/ \E a \in Accounts : LoadMoreDomains(a) /\ UNCHANGED idleVars /\ WithinTotal
  \/ \E r \in domainCalls : \E resp \in DomainResponses(r.page) :
       LoadMoreDomainsResolve(r, resp.outcome, resp.data) /\ UNCHANGED idleVars

SpecPromises == Init /\ [][NextPromises]_vars

\* ========================================================= query history
\* the queries of the history an earlier session persisted: dns lookups of
\* distinct names, entry i being the i-th most recent
StoredHistory(n) ==
  [i \in 1..n |-> [id |-> -i, type |-> "dns", query |-> i, recordType |-> "A",
                   timestamp |-> -i]]

\* the lengths of the persisted history a run starts from
StoredLengths == {0, 1, 2, MAX_HISTORY_ITEMS - 1, MAX_HISTORY_ITEMS}

InitHistory ==
  /\ InitRecords
  /\ InitDomains
  /\ history \in {StoredHistory(n) : n \in StoredLengths}
  /\ uuids = 0
  /\ removals = 0
  /\ InitSide

\* the names looked up in a run: the most recent and the oldest of a full stored
\* history, and one that no stored history holds
Queries == {1, MAX_HISTORY_ITEMS, MAX_HISTORY_ITEMS + 1}

\* what the lookup forms pass to addHistory: a whois lookup has no record type
HistoryItems ==
  [type : {"whois"}, query : Queries, recordType : {UNDEFINED}]
    \cup [type : {"dns"}, query : Queries, recordType : {"A"}]

SameQuery(h, item) ==
  h.type = item.type /\ h.query = item.query /\ h.recordType = item.recordType

\* state.history.findIndex(...): the first match, 0 when there is none
FindIndex_none(hist, item) == 0
FindIndex(hist, item) ==
  IF \E i \in 1..Len(hist) : SameQuery(hist[i], item)
  THEN CHOOSE i \in 1..Len(hist) :
         SameQuery(hist[i], item) /\ \A j \in 1..(i - 1) : ~SameQuery(hist[j], item)
  ELSE 0

\* state.history.filter((_, i) => i !== existingIndex)
RemoveAt(hist, k) ==
  [i \in 1..(Len(hist) - 1) |-> IF i < k THEN hist[i] ELSE hist[i + 1]]

\* newHistory.slice(0, MAX_HISTORY_ITEMS) when it is longer
Limit_none(hist) == hist
Limit(hist) ==
  IF Len(hist) > MAX_HISTORY_ITEMS THEN SubSeq(hist, 1, MAX_HISTORY_ITEMS) ELSE hist

\* the history addHistory(item) writes, with uuid from crypto.randomUUID() and
\* time from Date.now()
Added(hist, item, uuid, time) ==
  LET newItem == [id |-> uuid, type |-> item.type, query |-> item.query,
                  recordType |-> item.recordType, timestamp |-> time]
      existingIndex == FindIndex(hist, item)
  IN  Limit(IF existingIndex >= 1
            THEN <<[hist[existingIndex] EXCEPT !.timestamp = time]>>
                   \o RemoveAt(hist, existingIndex)
            ELSE <<newItem>> \o hist)

AddHistory(item) ==
  /\ uuids < MaxAdds
  /\ uuids' = uuids + 1
  /\ history' = Added(history, item, uuids + 1, now)
  /\ now' = now + 1
  /\ UNCHANGED removals

\* one more removeHistory or clearHistory call
Removal ==
  /\ removals < MaxRemovals
  /\ removals' = removals + 1

RemoveHistory(id) ==
  /\ Removal
  /\ history' = SelectSeq(history, LAMBDA h : h.id # id)
  /\ UNCHANGED <<uuids, now>>

ClearHistory ==
  /\ Removal
  /\ history' = <<>>
  /\ UNCHANGED <<uuids, now>>

\* the entries whose remove button is pressed in a run: the first two and the last
Pressed == {history[i].id : i \in {1, 2, Len(history)} \cap (1..Len(history))}

NextHistory ==
  \/ \E item \in HistoryItems : AddHistory(item) /\ UNCHANGED outsideTools
  \/ \E id \in Pressed : RemoveHistory(id) /\ UNCHANGED outsideTools
  \/ ClearHistory /\ UNCHANGED outsideTools

SpecHistory == InitHistory /\ [][NextHistory]_vars

\* -------------------------------------------------------------- properties
\* the request whose gateway call resolves in this step
Resolved(r) == r \in inflight /\ r \notin inflight'
\* the request issued in this step
Issued(r) == r \in inflight' /\ r \notin inflight

Shows(data) ==
  /\ records = data.items
  /\ page = data.page
  /\ hasMore = data.hasMore
  /\ totalCount = data.totalCount

\* C1: when fetchRecords(B) is issued while a fetchRecords for another domain A is
\* outstanding (and none for B), no response of A is ever written: while B's
\* response is awaited the list stays empty, and once B's success response has
\* arrived the list holds exactly B's page-1 items, whatever the order in which
\* the responses resolve.
C1_StaleFetchNeverWritten ==
  lastFetch.clean =>
    /\ (lastFetch.change /\ lastFetch.outcome = NULL) => (records = <<>> /\ totalCount = 0)
    /\ lastFetch.outcome = "ok" => Shows(lastFetch.data)

C1_Witness ==
  /\ lastFetch.overlap
  /\ lastFetch.clean
  /\ lastFetch.outcome = "ok"
  /\ inflight = {}
  /\ Len(records) = MaxItems
  /\ records = lastFetch.data.items

\* C2: in a run of fetchRecords calls only, once every request has resolved
\* successfully the store shows the response to the most recently issued call.
C2_LastIssuedFetchWins ==
  (inflight = {} /\ allOk /\ lastFetch.seq > 0) =>
    /\ Shows(lastFetch.data)
    /\ currentDomainId = lastFetch.domainId
    /\ keyword = lastFetch.keyword
    /\ recordType = lastFetch.recordType

\* C3: a fetchRecords or fetchMoreRecords response, whatever its outcome, that
\* arrives when currentDomainId differs from the domain it was requested for
\* changes none of records, page, hasMore, totalCount, error, keyword, recordType.
C3_StaleResponseDropped ==
  [][\A r \in inflight :
       (Resolved(r) /\ r.op \in {"fetchRecords", "fetchMoreRecords"}
          /\ currentDomainId # r.domainId)
       => UNCHANGED <<records, page, hasMore, totalCount, error, keyword, recordType>>]_vars

C3_Witness ==
  /\ records # <<>>
  /\ hasMore
  /\ \E r \in inflight :
       r.op \in {"fetchRecords", "fetchMoreRecords"} /\ currentDomainId # r.domainId

\* C4: the step that issues fetchRecords(d) empties records and zeroes totalCount
\* when d is not the current domain and leaves both as they are when it is; in
\* both cases it sets currentDomainId = d, page = 1, hasMore = false,
\* isLoading = true, error = null.  Until a response arrives, no call of the
\* record table or form changes records or totalCount, except a fetchRecords for
\* another domain.
C4_IssueReset ==
  [][/\ \A r \in inflight' :
          (Issued(r) /\ r.op = "fetchRecords") =>
            /\ r.domainId # currentDomainId => (records' = <<>> /\ totalCount' = 0)
            /\ r.domainId = currentDomainId => UNCHANGED <<records, totalCount>>
            /\ currentDomainId' = r.domainId
            /\ page' = 1
            /\ ~hasMore'
            /\ isLoading'
            /\ error' = NULL
     /\ (inflight \subseteq inflight' /\ currentDomainId' = currentDomainId)
          => UNCHANGED <<records, totalCount>>]_vars

C4_Witness ==
  /\ records # <<>>
  /\ totalCount > 0
  /\ isLoading
  /\ page = 1
  /\ ~hasMore
  /\ \E r \in inflight :
       r.op = "fetchRecords" /\ r.seq = nextSeq - 1 /\ r.domainId = currentDomainId

\* C5: once a committed list response carried hasMore=false for the current
\* domain, a fetchMoreRecords call issues no gateway call (its guard fails) until
\* a first-page fetch has been committed with hasMore=true.
C5_NoLoadMoreAfterEnd == exhausted => ~FetchMoreGuard(currentDomainId)

\* C6: every applied fetchMoreRecords response makes the list longer by exactly
\* the number of items it carries and increases page by exactly 1.
C6_LoadMoreExtends ==
  [][\A r \in inflight : \A data \in Pages(r.domainId, r.page) :
       (currentDomainId = r.domainId /\ FetchMoreRecordsResolve(r, "ok", data))
       => /\ Len(records') = Len(records) + Len(data.items)
          /\ page' = page + 1]_vars

\* C7: right after a createRecord success is committed the identifier of the
\* returned record occurs exactly once in the list and totalCount is one more
\* than before.
Occurrences(recs, id) == Cardinality({i \in 1..Len(recs) : recs[i].id = id})

C7_CreatedOnce ==
  [][\A r \in inflight : \A rec \in NewRecords(r) :
       CreateRecordResolve(r, "ok", rec)
       => /\ Occurrences(records', rec.id) = 1
          /\ totalCount' = totalCount + 1]_vars

\* C8: right after a deleteRecord success is committed no record with the deleted
\* identifier is in the list, the other records are there in the same order, and
\* totalCount is max(0, totalCount - 1); totalCount is never negative.
Max0(n) == IF n < 0 THEN 0 ELSE n

RECURSIVE Others(_, _)
Others(recs, ids) ==
  IF recs = <<>> THEN <<>>
  ELSE IF Head(recs).id \in ids THEN Others(Tail(recs), ids)
       ELSE <<Head(recs)>> \o Others(Tail(recs), ids)

C8_DeleteRemoves ==
  /\ [](totalCount >= 0)
  /\ [][\A r \in inflight :
          DeleteRecordResolve(r, "ok")
          => /\ r.recordId \notin IdsOf(records')
             /\ records' = Others(records, {r.recordId})
             /\ totalCount' = Max0(totalCount - 1)]_vars

C8_Witness ==
  /\ totalCount = 0
  /\ Len(records) >= 2
  /\ \E r \in inflight : r.op = "deleteRecord" /\ r.recordId = records[1].id

\* C9: a successful updateRecord(recordId) puts the returned record at the position
\* of the record with that identifier and changes nothing else: list length, the
\* other records and their order, totalCount, page, hasMore and the selection.
C9_UpdateInPlace ==
  [][\A r \in inflight : \A rec \in UpdatedRecords(r) :
       UpdateRecordResolve(r, "ok", rec)
       => /\ Len(records') = Len(records)
          /\ \A i \in 1..Len(records) :
               records'[i] = IF records[i].id = r.recordId THEN rec ELSE records[i]
          /\ UNCHANGED <<totalCount, page, hasMore, selectedRecordIds>>]_vars

\* an updated record (only updateRecord returns revision 1) stands before another
C9_Witness ==
  /\ Len(records) >= 2
  /\ records[1].rev = 1
  /\ records[Len(records)].rev = 0

\* C10: when the success envelope of a batch delete of N identifiers lists M of
\* them as failures, the N-M others are removed from the list, the failed ones
\* and all other records stay in order, totalCount drops by N-M floored at 0, and
\* the selection is empty and select mode off afterwards.
C10_BatchPartialFailure ==
  [][\A r \in inflight : \A result \in BatchResults(r.recordIds) :
       BatchDeleteRecordsResolve(r, "ok", result)
       => /\ \A id \in r.recordIds \ result.failures : id \notin IdsOf(records')
          /\ \A id \in result.failures : id \in IdsOf(records) => id \in IdsOf(records')
          /\ records' = Others(records, r.recordIds \ result.failures)
          /\ totalCount' = Max0(totalCount
                                  - (Cardinality(r.recordIds) - Cardinality(result.failures)))
          /\ selectedRecordIds' = {}
          /\ ~isSelectMode']_vars

C10_Witness ==
  /\ isSelectMode
  /\ totalCount > 0
  /\ \E r \in inflight :
       /\ r.op = "batchDeleteRecords"
       /\ Cardinality(r.recordIds) >= 2
       /\ r.recordIds \subseteq IdsOf(records)

\* C11: batch delete is single-flight: while isBatchDeleting is true (a
\* batchDeleteRecords call is outstanding), no batchDeleteRecords call issues a
\* batch_delete_dns_records gateway call.
C11_BatchDeleteSingleFlight ==
  [][\A r \in inflight' :
       (Issued(r) /\ r.op = "batchDeleteRecords") => ~isBatchDeleting]_vars

\* C12: in every reachable state of the record store in select mode the selected
\* identifiers are identifiers of records in the list.
C12_SelectionWithinList == selectedRecordIds \subseteq IdsOf(records)

\* C13: the step that issues fetchRecords for a domain other than currentDomainId
\* leaves the selection empty.
C13_DomainChangeClearsSelection ==
  [][\A r \in inflight' :
       (Issued(r) /\ r.op = "fetchRecords" /\ r.domainId # currentDomainId)
       => selectedRecordIds' = {}]_vars

\* ---------------------------------------------- properties: domain cache
\* the call whose list_domains request resolves / is issued in this step
ResolvedCall(r) == r \in domainCalls /\ r \notin domainCalls'
IssuedCall(r) == r \in domainCalls' /\ r \notin domainCalls

Outstanding(op, accountId) ==
  \E r \in domainCalls : r.op = op /\ r.accountId = accountId

FirstPageOps == {"refreshAccount", "refreshAllAccounts"}

\* C14: a refreshAccount(X) call made while an earlier refreshAccount(X) is
\* outstanding issues no list_domains call and changes no state; X is in
\* loadingAccounts exactly while a refreshAccount(X) request is outstanding, so
\* that once it has resolved, with any outcome, a refreshAccount(X) call issues a
\* page-1 request again.
C14_RefreshAccountSingleFlight ==
  /\ [](\A x \in Accounts : x \in loadingAccounts <=> Outstanding("refreshAccount", x))
  /\ [][\A x \in Accounts :
          RefreshAccount(x) =>
            IF Outstanding("refreshAccount", x)
            THEN UNCHANGED <<cacheVars, domainCalls, nextCall>>
            ELSE \E r \in domainCalls' :
                   /\ IssuedCall(r)
                   /\ r.op = "refreshAccount"
                   /\ r.accountId = x
                   /\ r.page = 1]_vars

\* no response was ever committed, the first call has failed, a second request for
\* the same account is outstanding and a call made meanwhile returned at once
C14_Witness ==
  \E r \in domainCalls :
    /\ r.op = "refreshAccount"
    /\ r.seq >= 2
    /\ now = 0
    /\ settled = Settle("refreshAccount", r.accountId, "resolved")
    /\ r.accountId \in loadingAccounts

\* C15: at any moment at most one page-1 list_domains request is in flight for an
\* account, counting those of refreshAccount and of refreshAllAccounts together.
C15_OneFirstPageFetchPerAccount ==
  \A x \in Accounts :
    Cardinality({r \in domainCalls :
                   r.accountId = x /\ r.page = 1 /\ r.op \in FirstPageOps}) <= 1

\* C16: isBackgroundRefreshing is true exactly while a fetch of a
\* refreshAllAccounts run is outstanding (so it is false again once all fetches
\* of the run have resolved, whatever their outcomes), and a refreshAllAccounts
\* call made while it is true issues no gateway call.
C16_RefreshAllSingleFlight ==
  /\ [](isBackgroundRefreshing <=> \E r \in domainCalls : r.op = "refreshAllAccounts")
  /\ [][\A accounts \in SUBSET Accounts :
          (RefreshAllAccounts(accounts) /\ isBackgroundRefreshing)
          => UNCHANGED <<cacheVars, domainCalls, nextCall>>]_vars

\* a run is outstanding and a refreshAllAccounts call has returned at once: no
\* run has completed, since nothing was saved
C16_Witness ==
  /\ isBackgroundRefreshing
  /\ settled = Settle("refreshAllAccounts", 0, "resolved")
  /\ storage = NoItem
  /\ Cardinality({r \in domainCalls : r.op = "refreshAllAccounts"}) = MaxAccounts

\* C17: in refreshAllAccounts the step of an account whose fetch succeeds replaces
\* that account's entry by the response, the step of an account whose fetch fails
\* (failure envelope or rejection) leaves the cache as it is, in any resolution
\* order, and the promise of refreshAllAccounts never rejects.
C17_RefreshAllIsolatesFailures ==
  /\ [](settled.op = "refreshAllAccounts" => settled.result = "resolved")
  /\ [][\A r \in domainCalls : \A resp \in DomainResponses(r.page) :
          RefreshAllAccountsResolve(r, resp.outcome, resp.data) =>
            IF resp.outcome = "ok"
            THEN /\ r.accountId \in DOMAIN domainsByAccount'
                 /\ domainsByAccount'[r.accountId] =
                      [domains |-> resp.data.items, lastUpdated |-> now,
                       page |-> resp.data.page, hasMore |-> resp.data.hasMore]
            ELSE UNCHANGED domainsByAccount]_vars

\* a run over all accounts in which the fetch issued last succeeded first and the
\* fetch issued first is still to resolve
C17_Witness ==
  \E r \in domainCalls :
    /\ domainCalls = {r}
    /\ r.op = "refreshAllAccounts"
    /\ r.seq = 1
    /\ r.run = 1
    /\ nextCall = MaxAccounts + 1
    /\ settled = NoPromise
    /\ DOMAIN domainsByAccount = Accounts \ {r.accountId}
    /\ isBackgroundRefreshing

\* C18: when refreshAccount(X) receives a failure envelope or a rejection, the
\* promise rejects, the whole cache is what it was before the response, and X is no
\* longer in loadingAccounts (the guard of the next refreshAccount(X) passes).
C18_RefreshAccountFailure ==
  [][\A r \in domainCalls, credential \in BOOLEAN, outcome \in {"fail", "reject"} :
       RefreshAccountResolve(r, outcome, NoPage, credential)
       => /\ settled' = Settle("refreshAccount", r.accountId, "rejected")
          /\ UNCHANGED domainsByAccount
          /\ r.accountId \notin loadingAccounts']_vars

\* a refresh of a cached account has failed with a credential error
C18_Witness ==
  \E x \in Accounts :
    /\ settled = Settle("refreshAccount", x, "rejected")
    /\ x \in DOMAIN domainsByAccount
    /\ domainsByAccount[x].domains # <<>>
    /\ x \notin loadingAccounts
    /\ accountsIsLoading

\* C19: a step that takes the entry of account X from hasMore=false to
\* hasMore=true commits the response of a page-1 refresh of X (refreshAccount or
\* refreshAllAccounts); no loadMoreDomains commit does it.
C19_HasMoreFalseIsTerminal ==
  [][\A x \in Accounts :
       (/\ x \in DOMAIN domainsByAccount
        /\ ~domainsByAccount[x].hasMore
        /\ x \in DOMAIN domainsByAccount'
        /\ domainsByAccount'[x].hasMore)
       => \E r \in domainCalls :
            ResolvedCall(r) /\ r.accountId = x /\ r.op \in FirstPageOps]_vars

\* C20: a step that resolves a request for account X (refreshAccount,
\* loadMoreDomains, the per-account step of refreshAllAccounts) or clears the cache
\* of X leaves the entry of every other account as it is: absent, or present with
\* the same content.
SameEntry(y) ==
  /\ (y \in DOMAIN domainsByAccount') = (y \in DOMAIN domainsByAccount)
  /\ y \in DOMAIN domainsByAccount => domainsByAccount'[y] = domainsByAccount[y]

C20_CommitsScopedToAccount ==
  [][/\ \A r \in domainCalls :
          ResolvedCall(r) => \A y \in Accounts \ {r.accountId} : SameEntry(y)
     /\ \A x \in Accounts :
          ClearAccountCache(x) => \A y \in Accounts \ {x} : SameEntry(y)]_vars

\* requests for two accounts are in flight while one of them has an entry
C20_Witness ==
  \E x, y \in Accounts :
    /\ x # y
    /\ y \in DOMAIN domainsByAccount
    /\ domainsByAccount[y].domains # <<>>
    /\ \E r, q \in domainCalls : r.accountId = x /\ q.accountId = y

\* C21: once loadFromStorage has run, whenever no list_domains request is in
\* flight the parsed durable copy (the empty map when the item is absent) equals
\* domainsByAccount.
Durable == IF storage.present THEN Parse(storage.value) ELSE NoCache

C21_DurableCopyInSync == (loaded /\ domainCalls = {}) => Durable = domainsByAccount

\* after a refreshAllAccounts run in which a fetch succeeded and one failed, on top
\* of what an earlier session had stored
C21_Witness ==
  /\ loaded
  /\ domainCalls = {}
  /\ settled = Settle("refreshAllAccounts", 0, "resolved")
  /\ nextCall = MaxAccounts + 1
  /\ now = 1
  /\ storage.present
  /\ DOMAIN domainsByAccount = Accounts
  /\ \E x \in Accounts : domainsByAccount[x].lastUpdated < 0

\* -------------------------------------------- properties: query history
\* the history without its timestamps
Untimed(hist) == [i \in 1..Len(hist) |-> [hist[i] EXCEPT !.timestamp = 0]]

\* C22: addHistory of an item whose (type, query, recordType) an entry has leaves
\* the length as it is, puts that entry, with its identifier and the current
\* time, at the front and keeps the other entries in their order; and adding the
\* same item a second time right away gives the history of the first add, up to
\* the timestamp.
C22_AddExistingMovesToFront ==
  /\ [](\A item \in HistoryItems :
          Untimed(Added(Added(history, item, uuids + 1, now), item, uuids + 2, now + 1))
            = Untimed(Added(history, item, uuids + 1, now)))
  /\ [][\A item \in HistoryItems : \A k \in 1..Len(history) :
          (AddHistory(item) /\ SameQuery(history[k], item))
          => /\ Len(history') = Len(history)
             /\ history'[1] = [history[k] EXCEPT !.timestamp = now]
             /\ \A i \in 1..Len(history) :
                  i # k => history'[IF i < k THEN i + 1 ELSE i] = history[i]]_vars

\* the oldest entry of a full stored history was looked up again
C22_Witness ==
  /\ Len(history) = MAX_HISTORY_ITEMS
  /\ history[1].id = -MAX_HISTORY_ITEMS
  /\ history[1].timestamp >= 0
  /\ history[2].id = -1

\* C23: the history never holds more than MAX_HISTORY_ITEMS (50) entries, and
\* addHistory of an item no entry has to a history of 50 puts the new item at the
\* front and drops the last entry, the 49 others following in their order.
C23_HistoryCapped ==
  /\ [](Len(history) <= MAX_HISTORY_ITEMS)
  /\ [][\A item \in HistoryItems :
          (/\ AddHistory(item)
           /\ Len(history) = MAX_HISTORY_ITEMS
           /\ \A k \in 1..Len(history) : ~SameQuery(history[k], item))
          => /\ Len(history') = MAX_HISTORY_ITEMS
             /\ SameQuery(history'[1], item)
             /\ history'[1].id \notin {history[k].id : k \in 1..Len(history)}
             /\ history'[1].timestamp = now
             /\ \A i \in 1..(MAX_HISTORY_ITEMS - 1) : history'[i + 1] = history[i]]_vars

\* a new item was added to a full stored history
C23_Witness ==
  /\ Len(history) = MAX_HISTORY_ITEMS
  /\ history[1].id > 0
  /\ history[2].id = -1
  /\ history[MAX_HISTORY_ITEMS].id = -(MAX_HISTORY_ITEMS - 1)

\* ------------------------------------------------- properties: promises
\* C24: whatever the gateway answers, the promise of every record-store operation
\* resolves, and so do those of loadMoreDomains and of a refreshAllAccounts run;
\* the only promise that ever rejects is that of refreshAccount.
C24_OnlyRefreshAccountRejects ==
  /\ [](returned.result # "rejected")
  /\ [](settled.result = "rejected" => settled.op = "refreshAccount")
  /\ [][/\ \A r \in inflight :
            Resolved(r) => (returned'.op = r.op /\ returned'.result = "resolved")
        /\ \A r \in domainCalls :
            (ResolvedCall(r) /\ r.op = "loadMoreDomains")
            => settled' = Settle("loadMoreDomains", r.accountId, "resolved")
        /\ \A r \in domainCalls :
            (ResolvedCall(r) /\ r.op = "refreshAllAccounts" /\ ~isBackgroundRefreshing')
            => settled' = Settle("refreshAllAccounts", 0, "resolved")]_vars

\* a fetchRecords call has failed and resolved, a refreshAccount call has rejected
C24_Witness ==
  /\ returned = [op |-> "fetchRecords", result |-> "resolved", value |-> "undefined"]
  /\ error # NULL
  /\ settled.op = "refreshAccount"
  /\ settled.result = "rejected"

\* C25: a createRecord, updateRecord, deleteRecord or batchDeleteRecords call that
\* gets a failure envelope or a rejection leaves records and totalCount as they
\* are, returns null (create, batch delete) or false (update, delete), and leaves
\* its in-progress flag false.
C25_MutationFailureLeavesList ==
  [][\A r \in inflight : \A o \in {"fail", "reject"} :
       /\ (\E rec \in NewRecords(r) : CreateRecordResolve(r, o, rec) /\ TrackReturn(r, o))
            => (UNCHANGED <<records, totalCount>> /\ returned'.value = "null" /\ ~isLoading')
       /\ (\E rec \in UpdatedRecords(r) : UpdateRecordResolve(r, o, rec) /\ TrackReturn(r, o))
            => (UNCHANGED <<records, totalCount>> /\ returned'.value = "false")
       /\ (DeleteRecordResolve(r, o) /\ TrackReturn(r, o))
            => (UNCHANGED <<records, totalCount>> /\ returned'.value = "false"
                  /\ ~isDeleting')
       /\ (BatchDeleteRecordsResolve(r, o, NoResult) /\ TrackReturn(r, o))
            => (UNCHANGED <<records, totalCount>> /\ returned'.value = "null"
                  /\ ~isBatchDeleting')]_vars

\* a batch delete of a loaded record has failed
C25_Witness ==
  /\ returned = [op |-> "batchDeleteRecords", result |-> "resolved", value |-> "null"]
  /\ records # <<>>
  /\ selectedRecordIds = IdsOf(records)
  /\ ~isBatchDeleting

\* ------------------------------------------------ properties: read failures
Failures == {"fail", "reject"}

\* C26: a fetchRecords response for the still-current domain that is a failure
\* envelope or a rejection sets error to a message and isLoading to false, and
\* leaves records and totalCount as the calls before it left them: the issue-time
\* reset is the last change this call makes to them.
C26_FetchFailureKeepsList ==
  [][\A r \in inflight : \A o \in Failures :
       (/\ currentDomainId = r.domainId
        /\ \E resp \in ListResponses(r.domainId, r.page) :
             FetchRecordsResolve(r, o, resp.data) /\ TrackReturn(r, o))
       => /\ error' # NULL
          /\ ~isLoading'
          /\ UNCHANGED <<records, totalCount, page, hasMore>>]_vars

\* a same-domain fetch over a loaded list has failed: the list is kept
C26_Witness ==
  /\ returned.op = "fetchRecords"
  /\ error # NULL
  /\ ~isLoading
  /\ records # <<>>
  /\ totalCount > 0
  /\ inflight = {}

\* C27: a fetchMoreRecords response for the still-current domain that is a failure
\* envelope or a rejection leaves records, page, hasMore, totalCount and error
\* unchanged and sets isLoadingMore to false; if no fetchRecords reset hasMore in
\* between, the same next page can be requested again.
C27_FetchMoreFailureIsSilent ==
  [][\A r \in inflight : \A o \in Failures :
       (/\ currentDomainId = r.domainId
        /\ \E resp \in ListResponses(r.domainId, r.page) :
             FetchMoreRecordsResolve(r, o, resp.data) /\ TrackReturn(r, o))
       => /\ UNCHANGED <<records, page, hasMore, totalCount, error>>
          /\ ~isLoadingMore'
          /\ hasMore => (FetchMoreGuard(r.domainId))']_vars

\* a load-more has failed and the same page can be asked for again
C27_Witness ==
  /\ returned.op = "fetchMoreRecords"
  /\ error = NULL
  /\ hasMore
  /\ page = 1
  /\ ~isLoadingMore
  /\ records # <<>>
  /\ inflight = {}

\* ------------------------------------------------- properties: busy flags
Busy == isLoading \/ isLoadingMore \/ isDeleting \/ isBatchDeleting

\* C28: when the gateway answers every call, no in-progress flag outlives its
\* request: with no request outstanding all four flags are false, and every flag
\* that is true becomes false again, also for a fetchRecords or fetchMoreRecords
\* request the user has left by moving to another domain.
C28_FlagsFollowRequests ==
  /\ [](inflight = {} => ~Busy)
  /\ Busy ~> ~Busy

\* --------------------------------------- properties: mutations and load-more
Holds(recs, rec) == \E j \in 1..Len(recs) : recs[j] = rec

\* a record the list lost since the load-more captured it is not brought back
DeletedStaysAbsent(r, data) ==
  \A id \in IdsOf(r.records) \ IdsOf(records) :
    id \in IdsOf(records') => id \in IdsOf(data.items)

\* a record the list gained since the load-more captured it is kept
CreatedStaysPresent(r) ==
  \A i \in 1..Len(records) :
    records[i].id \notin IdsOf(r.records) => Holds(records', records[i])

\* a record with the content an update returned keeps that content
UpdatedKeepsValue ==
  \A i \in 1..Len(records) : records[i].rev = 1 => Holds(records', records[i])

\* C29: a createRecord, updateRecord or deleteRecord success committed while a
\* fetchMoreRecords request for the same domain is in flight survives the commit
\* of the load-more response: the deleted record is still absent, the created one
\* still present, the updated one still has its new content.
C29_MutationsSurviveLoadMore ==
  [][\A r \in inflight : \A data \in Pages(r.domainId, r.page) :
       (currentDomainId = r.domainId /\ FetchMoreRecordsResolve(r, "ok", data))
       => /\ DeletedStaysAbsent(r, data)
          /\ CreatedStaysPresent(r)
          /\ UpdatedKeepsValue]_vars

\* --------------------------------------------- properties: one domain's list
\* C30: every record in the list belongs to currentDomainId: no response that was
\* requested for one domain puts a record into the list while another domain is
\* current, a createRecord response that arrives after the switch included.
C30_ListOfCurrentDomain ==
  \A i \in 1..Len(records) : records[i].dom = currentDomainId

\* ------------------------------------------------ properties: total count
\* C31: totalCount goes down only for a record that is taken out of the list: a
\* deleteRecord success that removes nothing from the list, here the delete of a
\* record of a domain the user has left since, leaves totalCount unchanged.
C31_CountFollowsList ==
  [][\A r \in inflight :
       (/\ DeleteRecordResolve(r, "ok")
        /\ r.domainId # currentDomainId
        /\ r.recordId \notin IdsOf(records))
       => totalCount' = totalCount]_vars

\* -------------------------------------------------- properties: loading flag
\* C36: isLoading is true in every state in which a first-page fetchRecords call
\* for the current domain is in flight; neither the response of an earlier
\* fetchRecords for the same domain nor the end of a createRecord clears it.
C36_LoadingWhileFetching ==
  (\E r \in inflight : r.op = "fetchRecords" /\ r.domainId = currentDomainId) => isLoading

\* ------------------------------------- properties: refresh against load-more
\* C32: a page-1 refresh of an account that is committed while a loadMoreDomains
\* call for that account is in flight is not overwritten: the load-more commit
\* leaves the account's list as the list of that moment followed by the items of
\* the load-more response.
C32_LoadMoreKeepsRefresh ==
  [][\A r \in domainCalls : \A data \in DomainPages(r.page) :
       (/\ LoadMoreDomainsResolve(r, "ok", data)
        /\ r.accountId \in DOMAIN domainsByAccount)
       => domainsByAccount'[r.accountId].domains
            = domainsByAccount[r.accountId].domains \o data.items]_vars

\* ------------------------------------------ properties: clear against commits
\* C33: a cleared account has no cache entry until a refresh issued after the
\* clear commits.  A loadMoreDomains call is issued only for an account that has
\* an entry, so when its response finds no entry the cache was cleared while the
\* call was in flight: its commit leaves the account without an entry, in memory
\* and in the durable copy.
C33_ClearedStaysCleared ==
  [][\A r \in domainCalls :
       (/\ r.op = "loadMoreDomains"
        /\ ResolvedCall(r)
        /\ r.accountId \notin DOMAIN domainsByAccount)
       => /\ r.accountId \notin DOMAIN domainsByAccount'
          /\ r.accountId \notin DOMAIN Parse(storage'.value)]_vars

\* ------------------------------------------- properties: history uniqueness
\* C40: no two history entries have the same type, query and recordType, and no
\* two have the same id, after any sequence of addHistory, removeHistory and
\* clearHistory.
C40_HistoryEntriesUnique ==
  \A i, j \in 1..Len(history) :
    i # j => (~SameQuery(history[i], history[j]) /\ history[i].id # history[j].id)

\* three lookups from an empty history, one of them a repeat, left two entries
C40_Witness ==
  /\ uuids = MaxAdds
  /\ removals = 0
  /\ Len(history) = 2
  /\ history[1].id > 0
  /\ history[2].id > 0

\* ===================================================== single-list domain store
\* PaginatedResponse<Domain> of list_domains for page p (echoed by the backend)
ListPages(p) ==
  [items : SeqsUpTo(DomainNames, MaxDomains), page : {p}, hasMore : BOOLEAN,
   totalCount : 0..MaxCount]

DomainListResponses(p) ==
  [outcome : {"ok"}, data : ListPages(p)] \cup [outcome : {"fail", "reject"}, data : {NoData}]

\* the response is for an account that is no longer the current one
IsOtherAccount_never(accountId) == FALSE
IsOtherAccount(accountId) == domainState.currentAccountId # accountId

ListCall(op, accountId, p, domains) ==
  [op |-> op, seq |-> nextList, accountId |-> accountId, page |-> p, domains |-> domains]

InvokeList(call) ==
  /\ nextList <= MaxLists
  /\ listCalls' = listCalls \cup {call}
  /\ nextList' = nextList + 1

ResumeList(r, op) ==
  /\ r \in listCalls
  /\ r.op = op
  /\ listCalls' = listCalls \ {r}
  /\ UNCHANGED nextList

FetchDomains(accountId) ==
  LET isAccountChanged == domainState.currentAccountId # accountId
  IN  /\ domainState' =
           [domainState EXCEPT !.isLoading = TRUE,
                               !.error = NULL,
                               !.selectedDomainId = IF isAccountChanged THEN NULL ELSE @,
                               !.domains = <<>>,
                               !.page = 1,
                               !.hasMore = FALSE,
                               !.totalCount = 0,
                               !.currentAccountId = accountId]
      /\ InvokeList(ListCall("fetchDomains", accountId, 1, <<>>))

\* continuation of fetchDomains after the await: try body, catch, finally
FetchDomainsResolve(r, outcome, data) ==
  /\ ResumeList(r, "fetchDomains")
  /\ domainState' =
       IF IsOtherAccount(r.accountId) THEN domainState
       ELSE IF outcome = "ok"
       THEN [domainState EXCEPT !.domains = data.items,
                                !.page = data.page,
                                !.hasMore = data.hasMore,
                                !.totalCount = data.totalCount,
                                !.isLoading = FALSE]
       ELSE [domainState EXCEPT !.error = ErrorMessage(outcome), !.isLoading = FALSE]

\* the call that passes the guard; a call that fails it returns at once
FetchMoreDomains(accountId) ==
  /\ ~domainState.isLoadingMore
  /\ domainState.hasMore
  /\ domainState.currentAccountId = accountId
  /\ domainState' = [domainState EXCEPT !.isLoadingMore = TRUE]
  /\ InvokeList(ListCall("fetchMoreDomains", accountId, domainState.page + 1,
                         domainState.domains))

FetchMoreDomainsResolve(r, outcome, data) ==
  /\ ResumeList(r, "fetchMoreDomains")
  /\ domainState' =
       IF IsOtherAccount(r.accountId) THEN domainState
       ELSE IF outcome = "ok"
       THEN [domainState EXCEPT !.domains = r.domains \o data.items,
                                !.page = data.page,
                                !.hasMore = data.hasMore,
                                !.isLoadingMore = FALSE]
       ELSE [domainState EXCEPT !.isLoadingMore = FALSE]

SelectDomain(id) ==
  /\ domainState' = [domainState EXCEPT !.selectedDomainId = id]
  /\ UNCHANGED <<listCalls, nextList>>

ClearDomains ==
  /\ domainState' = [domainState EXCEPT !.domains = <<>>,
                                        !.selectedDomainId = NULL,
                                        !.page = 1,
                                        !.hasMore = FALSE,
                                        !.totalCount = 0,
                                        !.currentAccountId = NoAccount]
  /\ UNCHANGED <<listCalls, nextList>>

\* the sidebar: expanding an account fetches its domains, collapsing it clears
\* the list, scrolling loads the next page of the expanded account
NextList ==
  \/ \E a \in Accounts : FetchDomains(a) /\ UNCHANGED outsideList
  \/ \E r \in listCalls : \E resp \in DomainListResponses(r.page) :
       FetchDomainsResolve(r, resp.outcome, resp.data) /\ UNCHANGED outsideList
  \/ \E a \in Accounts : FetchMoreDomains(a) /\ UNCHANGED outsideList
  \/ \E r \in listCalls : \E resp \in DomainListResponses(r.page) :
       FetchMoreDomainsResolve(r, resp.outcome, resp.data) /\ UNCHANGED outsideList
  \/ \E id \in DomainNames : SelectDomain(id) /\ UNCHANGED outsideList
  \/ ClearDomains /\ UNCHANGED outsideList

SpecList == Init /\ [][NextList]_vars

\* the same runs when the gateway answers every call
AnswerList == NextList /\ \E r \in listCalls : r \notin listCalls'

SpecListLive == Init /\ [][NextList]_vars /\ WF_vars(AnswerList)

\* ------------------------------------------- properties: single-list store
ListData == <<domainState.domains, domainState.page, domainState.hasMore,
              domainState.totalCount, domainState.error>>

\* C34: a list_domains response requested for an account by fetchDomains or
\* fetchMoreDomains is applied only if that account is the current one when the
\* response arrives: after a fetchDomains for another account or clearDomains it
\* changes none of domains, page, hasMore, totalCount and error.
C34_OtherAccountResponseDropped ==
  [][\A r \in listCalls :
       (r \notin listCalls' /\ domainState.currentAccountId # r.accountId)
       => UNCHANGED ListData]_vars

\* the response of a fetchDomains call arrived after clearDomains and was dropped:
\* nothing is in flight, no account is current, and the call's flag is still set
C34_Witness ==
  /\ listCalls = {}
  /\ nextList = 2
  /\ domainState.currentAccountId = NoAccount
  /\ domainState.isLoading
  /\ domainState.domains = <<>>
  /\ domainState.error = NULL

ListBusy == domainState.isLoading \/ domainState.isLoadingMore

\* C35: when the gateway answers every call, isLoading and isLoadingMore are both
\* false whenever no list_domains call is outstanding, and a flag that is set is
\* cleared again, also after clearDomains or a fetchDomains for another account
\* was called while a call was in flight.
C35_ListFlagsFollowRequests ==
  /\ [](listCalls = {} => ~ListBusy)
  /\ ListBusy ~> ~ListBusy

\* ================================================================ updater store
Versions == {"v1", "v2"}

\* Update (desktop plugin) or AndroidUpdate, as the check of this device returns it
UpdateInfo(version) == [version |-> version, android |-> currentPlatform = "android"]

\* isAndroidUpdate(update)
IsAndroidUpdate(update) == update.android

\* what the update check answers: an update, no update, or an error (whose
\* message may say that the platform was not found)
CheckResults ==
  [kind : {"update"}, version : Versions, platformError : {FALSE}]
    \cup [kind : {"none"}, version : {NULL}, platformError : {FALSE}]
    \cup [kind : {"error"}, version : {NULL}, platformError : BOOLEAN]

\* skippedVersion === update.version
IsSkipped_never(version) == FALSE
IsSkipped(version) == skippedVersion = version

CheckForUpdates ==
  /\ checkCalls.pending < MaxChecks
  /\ updater' = [updater EXCEPT !.checking = TRUE, !.error = NULL, !.upToDate = FALSE,
                                !.isPlatformUnsupported = FALSE]
  /\ checkCalls' = [checkCalls EXCEPT !.pending = @ + 1]
  /\ UNCHANGED <<skippedVersion, currentPlatform, job>>

\* continuation of checkForUpdates after platform() and the update check; the
\* Android branch and the desktop branch write the same fields
CheckForUpdatesResolve(res) ==
  /\ checkCalls.pending > 0
  /\ updater' =
       IF res.kind = "update"
       THEN IF IsSkipped(res.version)
            THEN [updater EXCEPT !.available = NoUpdate, !.checking = FALSE, !.upToDate = TRUE]
            ELSE [updater EXCEPT !.available = UpdateInfo(res.version),
                                 !.checking = FALSE, !.upToDate = FALSE,
                                 !.showUpdateDialog = TRUE]
       ELSE IF res.kind = "none"
       THEN [updater EXCEPT !.available = NoUpdate, !.checking = FALSE, !.upToDate = TRUE]
       ELSE [updater EXCEPT !.error = "failed", !.checking = FALSE, !.upToDate = FALSE,
                            !.isPlatformUnsupported = res.platformError]
  /\ checkCalls' =
       [checkCalls EXCEPT !.pending = @ - 1,
                          !.last = IF res.kind # "update" THEN res.kind
                                   ELSE IF IsSkipped(res.version) THEN "skipped" ELSE "found"]
  /\ UNCHANGED <<skippedVersion, currentPlatform, job>>

SkipVersion ==
  /\ IF updater.available # NoUpdate
     THEN /\ skippedVersion' = updater.available.version
          /\ updater' = [updater EXCEPT !.available = NoUpdate, !.upToDate = TRUE]
          /\ checkCalls' = [checkCalls EXCEPT !.skips = @ \cup {updater.available.version}]
     ELSE UNCHANGED <<skippedVersion, updater, checkCalls>>
  /\ UNCHANGED <<currentPlatform, job>>

ResetUpToDate ==
  /\ updater' = [updater EXCEPT !.upToDate = FALSE]
  /\ UNCHANGED <<skippedVersion, currentPlatform, checkCalls, job>>

SetShowUpdateDialog(show) ==
  /\ updater' = [updater EXCEPT !.showUpdateDialog = show]
  /\ UNCHANGED <<skippedVersion, currentPlatform, checkCalls, job>>

\* ----------------------------------------------------------- downloadAndInstall
\* the call up to its first await, platform(); without an available update it
\* returns at once
DownloadAndInstall ==
  /\ job.promise # "pending"
  /\ IF updater.available = NoUpdate
     THEN /\ job' = [NoJob EXCEPT !.pc = "done", !.promise = "resolved"]
          /\ UNCHANGED updater
     ELSE /\ updater' = [updater EXCEPT !.downloading = TRUE, !.progress = 0,
                                        !.error = NULL, !.retryCount = 0]
          /\ job' = [pc |-> "platform", attempt |-> 0, update |-> updater.available,
                     downloads |-> 0, retries |-> 0, promise |-> "pending"]
  /\ UNCHANGED <<skippedVersion, currentPlatform, checkCalls>>

\* the loop bound: for (attempt = 0; attempt < MAX_RETRIES) on Android,
\* for (attempt = 0; attempt <= MAX_RETRIES) on the desktop
IsLastAttempt_never(update, attempt) == FALSE
IsLastAttempt(update, attempt) ==
  IF IsAndroidUpdate(update) THEN attempt = MAX_RETRIES - 1 ELSE attempt = MAX_RETRIES

\* download_apk or the plugin's downloadAndInstall is called
StartDownload == [job EXCEPT !.pc = "download", !.downloads = @ + 1]

\* platform() has answered: the first attempt starts its download
PlatformResolve ==
  /\ job.pc = "platform"
  /\ job' = IF (currentPlatform = "android" /\ IsAndroidUpdate(job.update))
               \/ ~IsAndroidUpdate(job.update)
            THEN StartDownload
            ELSE [job EXCEPT !.pc = "done", !.promise = "resolved"]
  /\ UNCHANGED <<updater, skippedVersion, currentPlatform, checkCalls>>

\* a Progress or Finished event of the running download
DownloadProgress(percent) ==
  /\ job.pc = "download"
  /\ updater' = [updater EXCEPT !.progress = percent]
  /\ UNCHANGED <<skippedVersion, currentPlatform, checkCalls, job>>

\* the catch of an attempt: the last attempt ends the call, any other goes on to
\* the next iteration, which sets retryCount and waits two seconds
AttemptFailed ==
  IF IsLastAttempt(job.update, job.attempt)
  THEN /\ updater' = [updater EXCEPT !.error = "failed", !.downloading = FALSE,
                                     !.retryCount = MAX_RETRIES]
       /\ job' = [job EXCEPT !.pc = "done", !.promise = "rejected"]
  ELSE /\ updater' = [updater EXCEPT !.retryCount = job.attempt + 1, !.progress = 0]
       /\ job' = [job EXCEPT !.pc = "wait", !.attempt = @ + 1, !.retries = @ + 1]

\* the download of the attempt has ended
DownloadResolve(outcome) ==
  /\ job.pc = "download"
  /\ IF outcome = "ok"
     THEN /\ job' = [job EXCEPT !.pc = IF IsAndroidUpdate(job.update)
                                       THEN "install" ELSE "relaunch"]
          /\ skippedVersion' = IF IsAndroidUpdate(job.update) THEN skippedVersion ELSE NULL
          /\ checkCalls' = IF IsAndroidUpdate(job.update) THEN checkCalls
                           ELSE [checkCalls EXCEPT !.skips = {}]
          /\ UNCHANGED updater
     ELSE AttemptFailed /\ UNCHANGED <<skippedVersion, checkCalls>>
  /\ UNCHANGED currentPlatform

\* the two seconds before a retry have passed
TimerFires ==
  /\ job.pc = "wait"
  /\ job' = StartDownload
  /\ UNCHANGED <<updater, skippedVersion, currentPlatform, checkCalls>>

\* install_apk has ended (Android, phase 2)
InstallResolve(outcome) ==
  /\ job.pc = "install"
  /\ IF outcome = "ok"
     THEN /\ skippedVersion' = NULL
          /\ checkCalls' = [checkCalls EXCEPT !.skips = {}]
          /\ updater' = [updater EXCEPT !.downloading = FALSE]
          /\ job' = [job EXCEPT !.pc = "done", !.promise = "resolved"]
     ELSE /\ updater' = [updater EXCEPT !.error = "failed", !.downloading = FALSE]
          /\ job' = [job EXCEPT !.pc = "done", !.promise = "rejected"]
          /\ UNCHANGED <<skippedVersion, checkCalls>>
  /\ UNCHANGED currentPlatform

\* relaunch() has ended (desktop): a rejection is caught by the attempt's catch
RelaunchResolve(outcome) ==
  /\ job.pc = "relaunch"
  /\ IF outcome = "ok"
     THEN /\ job' = [job EXCEPT !.pc = "done", !.promise = "resolved"]
          /\ UNCHANGED updater
     ELSE AttemptFailed
  /\ UNCHANGED <<skippedVersion, currentPlatform, checkCalls>>

\* the steps of a running downloadAndInstall call
JobStep ==
  \/ PlatformResolve
  \/ \E outcome \in {"ok", "reject"} : DownloadResolve(outcome)
  \/ TimerFires
  \/ \E outcome \in {"ok", "reject"} : InstallResolve(outcome)
  \/ \E outcome \in {"ok", "reject"} : RelaunchResolve(outcome)

\* the settings page and the update dialog: the download button is disabled
\* while downloading
NextUpdater ==
  \/ CheckForUpdates /\ UNCHANGED outsideUpdater
  \/ \E res \in CheckResults : CheckForUpdatesResolve(res) /\ UNCHANGED outsideUpdater
  \/ SkipVersion /\ UNCHANGED outsideUpdater
  \/ ResetUpToDate /\ UNCHANGED outsideUpdater
  \/ \E show \in BOOLEAN : SetShowUpdateDialog(show) /\ UNCHANGED outsideUpdater
  \/ ~updater.downloading /\ DownloadAndInstall /\ UNCHANGED outsideUpdater
  \/ \E percent \in {50, 100} : DownloadProgress(percent) /\ UNCHANGED outsideUpdater
  \/ PlatformResolve /\ UNCHANGED outsideUpdater
  \/ \E outcome \in {"ok", "reject"} : DownloadResolve(outcome) /\ UNCHANGED outsideUpdater
  \/ TimerFires /\ UNCHANGED outsideUpdater
  \/ \E outcome \in {"ok", "reject"} : InstallResolve(outcome) /\ UNCHANGED outsideUpdater
  \/ \E outcome \in {"ok", "reject"} : RelaunchResolve(outcome) /\ UNCHANGED outsideUpdater

SpecUpdater == InitPlatforms /\ [][NextUpdater]_vars

\* the same runs when platform(), the downloads, the timers, the installer and
\* relaunch() all come back
SpecUpdaterLive ==
  InitPlatforms /\ [][NextUpdater]_vars /\ WF_vars(JobStep /\ UNCHANGED outsideUpdater)

\* ------------------------------------------------- properties: updater store
\* C37: downloadAndInstall ends also when every download fails.  A call makes at
\* most MAX_RETRIES + 1 download attempts; the failure of its last attempt leaves
\* downloading false and error set and rejects the promise; a failed install_apk
\* ends the call without another download; and every call that is pending ends.
C37_DownloadTerminates ==
  /\ [](job.downloads <= MAX_RETRIES + 1)
  /\ [][(job.pc = "download" /\ job'.pc = "done")
          => /\ job'.promise = "rejected"
             /\ ~updater'.downloading
             /\ updater'.error # NULL]_vars
  /\ [][(job.pc = "install" /\ job'.pc # "install")
          => /\ job'.pc = "done"
             /\ job'.downloads = job.downloads
             /\ ~updater'.downloading]_vars
  /\ (job.promise = "pending") ~> (job.promise # "pending")

\* every download of a call has failed, on either device: the call has ended
C37_Witness ==
  /\ job.pc = "done"
  /\ job.promise = "rejected"
  /\ job.downloads = job.retries + 1
  /\ job.retries >= MAX_RETRIES - 1
  /\ ~updater.downloading
  /\ updater.error # NULL

\* C38: retryCount equals the number of retries, the download attempts after the
\* first, that the current downloadAndInstall call has started, also once the
\* call has failed for good, and it never exceeds maxRetries.
C38_RetryCountIsRetries ==
  /\ updater.retryCount <= updater.maxRetries
  /\ job.update # NoUpdate => updater.retryCount = job.retries

\* the step of a checkForUpdates call that found an update of this version
Found(version) ==
  \E res \in CheckResults :
    /\ res.kind = "update"
    /\ res.version = version
    /\ CheckForUpdatesResolve(res)

\* how a check ends when it treats the version as skipped, and when it reports it
EndsSkipped ==
  /\ updater'.available = NoUpdate
  /\ updater'.upToDate
  /\ updater'.showUpdateDialog = updater.showUpdateDialog
EndsAvailable(version) ==
  /\ updater'.available = UpdateInfo(version)
  /\ updater'.showUpdateDialog

\* skipVersion with no available update changes nothing
SkipWithoutUpdate == (SkipVersion /\ updater.available = NoUpdate) => UNCHANGED vars

\* C39 as stated: a check that finds a version skipped since the last successful
\* install ends with available = null and upToDate = true and leaves the dialog
\* as it is; a check that finds any other version reports it as available and
\* opens the dialog; skipVersion with no available update changes nothing.
C39_SkippedUntilInstall ==
  /\ [][\A version \in Versions :
          Found(version) =>
            IF version \in checkCalls.skips THEN EndsSkipped ELSE EndsAvailable(version)]_vars
  /\ [][SkipWithoutUpdate]_vars

\* C39, amended: one skipped version is stored.  skipVersion on an available
\* update stores its version, replacing the one stored before, and only a
\* successful install clears it; a check that finds the stored version ends with
\* available = null and upToDate = true and leaves the dialog as it is; a check
\* that finds any other version reports it as available and opens the dialog;
\* skipVersion with no available update changes nothing.
C39_LastSkippedUntilInstall ==
  /\ [][\A version \in Versions :
          Found(version) =>
            IF version = skippedVersion THEN EndsSkipped ELSE EndsAvailable(version)]_vars
  /\ [][(SkipVersion /\ updater.available # NoUpdate)
          => skippedVersion' = updater.available.version]_vars
  /\ [][skippedVersion' # skippedVersion
          => \/ SkipVersion
             \/ /\ skippedVersion' = NULL
                /\ \/ job.pc = "install" /\ job'.promise = "resolved"
                   \/ job.pc = "download" /\ job'.pc = "relaunch"]_vars
  /\ [][SkipWithoutUpdate]_vars

\* a version was skipped and a later check that found it has just ended as if
\* there were no update
C39_Witness ==
  /\ checkCalls.last = "skipped"
  /\ skippedVersion \in checkCalls.skips
  /\ updater.available = NoUpdate
  /\ updater.upToDate

====
